---------------------------- MODULE Spec2Model ----------------------------
(***************************************************************************)
(* Model of the analytical core of labours (hercules):                     *)
(*   - languages.py: _resample_language_data (temporal resampler with the  *)
(*     year -> month -> week fallback) and the cumulative matrix built by  *)
(*     _plot_languages_chart.                                              *)
(*                                                                         *)
(* Datetimes are integers: ordinal * DayParts + part, where ordinal is the *)
(* proleptic Gregorian day number of Python's date.toordinal() and part is *)
(* the time of day in units of 1/DayParts of a day.                        *)
(***************************************************************************)
EXTENDS Integers, Sequences, FiniteSets, TLC

(***************************************************************************)
(* Bounds of the model.                                                    *)
(***************************************************************************)
\* the times of day tried: midnight and noon, in half days since midnight
PartsOfDay == {0, 1}

DayParts == Cardinality(PartsOfDay)

\* end - start is at most MaxSpanDays days (plus a fraction of a day)
MaxSpanDays == 10
\* rows of the daily matrix handed to the resampler
MaxRows == 2
\* largest cumulative value in an input matrix
MaxVal == 1

(***************************************************************************)
(* Calendar arithmetic (datetime / pandas.Timestamp).                      *)
(***************************************************************************)
Last(s) == s[Len(s)]

Min(a, b) == IF a < b THEN a ELSE b

Max(a, b) == IF a > b THEN a ELSE b

IsLeap(y) == (y % 4 = 0) /\ ((y % 100 # 0) \/ (y % 400 = 0))

DaysInMonth(y, m) ==
    IF m = 2 THEN (IF IsLeap(y) THEN 29 ELSE 28)
    ELSE IF m \in {4, 6, 9, 11} THEN 30 ELSE 31

\* days before January 1st of year y (CPython's _days_before_year)
DaysBeforeYear(y) ==
    LET p == y - 1 IN p * 365 + (p \div 4) - (p \div 100) + (p \div 400)

\* days of year y before the first of month m (CPython's _days_before_month)
DaysBeforeMonth(y, m) ==
    <<0, 31, 59, 90, 120, 151, 181, 212, 243, 273, 304, 334>>[m]
        + (IF m > 2 /\ IsLeap(y) THEN 1 ELSE 0)

\* date(y, m, d).toordinal()
Ordinal(y, m, d) == DaysBeforeYear(y) + DaysBeforeMonth(y, m) + d

\* date.fromordinal(n) as [y, m, d], as CPython's _ord2ymd computes it
FromOrdinal(n) ==
    LET n0   == n - 1
        n400 == n0 \div 146097
        r400 == n0 % 146097
        n100 == r400 \div 36524
        r100 == r400 % 36524
        n4   == r100 \div 1461
        r4   == r100 % 1461
        n1   == r4 \div 365
        doy  == r4 % 365
        year == n400 * 400 + n100 * 100 + n4 * 4 + n1 + 1
        est  == (doy + 50) \div 32
        m    == IF DaysBeforeMonth(year, est) > doy THEN est - 1 ELSE est
    IN IF n1 = 4 \/ n100 = 4
       THEN [y |-> year - 1, m |-> 12, d |-> 31]
       ELSE [y |-> year, m |-> m, d |-> doy - DaysBeforeMonth(year, m) + 1]

YearOf(n) == FromOrdinal(n).y

MonthOf(n) == FromOrdinal(n).m

DayOf(n) == FromOrdinal(n).d

\* date.weekday(): Monday = 0 ... Sunday = 6
Weekday(n) == (n + 6) % 7

\* a datetime and its parts
DateTime(ord, part) == ord * DayParts + part

OrdOf(t) == t \div DayParts

PartOf(t) == t % DayParts

\* (a - b).days of a pandas Timedelta: whole days, rounded down
TimedeltaDays(a, b) == (a - b) \div DayParts


(***************************************************************************)
(* pandas.date_range(start, periods=n, freq=f) for the four offsets the    *)
(* resampler uses.  Anchored offsets (W = W-SUN, ME, YE) roll the start    *)
(* forward to the first anchor on or after it and keep its time of day.    *)
(***************************************************************************)
\* aliases = {"year": "YE", "month": "ME", "day": "D", "week": "W"};
\* resample_freq = aliases.get(resample, resample)
Aliases(resample) ==
    CASE resample = "year"  -> "YE"
      [] resample = "month" -> "ME"
      [] resample = "day"   -> "D"
      [] resample = "week"  -> "W"
      [] OTHER -> resample

\* mutant: rolls to the next anchor even when t is on one
RollForwardPastAnchor(freq, t) ==
    LET n == OrdOf(t) IN
    CASE freq = "D"  -> t
      [] freq = "W"  -> DateTime(n + (IF Weekday(n) = 6 THEN 7 ELSE 6 - Weekday(n)), PartOf(t))
      [] freq = "ME" ->
           LET last == DayOf(n) = DaysInMonth(YearOf(n), MonthOf(n))
               mi   == YearOf(n) * 12 + (MonthOf(n) - 1) + (IF last THEN 1 ELSE 0)
               y    == mi \div 12
               m    == (mi % 12) + 1
           IN DateTime(Ordinal(y, m, DaysInMonth(y, m)), PartOf(t))
      [] freq = "YE" ->
           LET last == MonthOf(n) = 12 /\ DayOf(n) = 31
           IN DateTime(Ordinal(YearOf(n) + (IF last THEN 1 ELSE 0), 12, 31), PartOf(t))

\* offset.rollforward(t): the first anchor on or after t, same time of day
RollForward(freq, t) ==
    LET n   == OrdOf(t)
        ymd == FromOrdinal(n)
    IN
    CASE freq = "D"  -> t
      [] freq = "W"  -> DateTime(n + (6 - Weekday(n)), PartOf(t))
      [] freq = "ME" -> DateTime(Ordinal(ymd.y, ymd.m, DaysInMonth(ymd.y, ymd.m)), PartOf(t))
      [] freq = "YE" -> DateTime(Ordinal(ymd.y, 12, 31), PartOf(t))

\* anchor + k * offset, for an anchor that is on the offset
AddOffsets(freq, t, k) ==
    LET n   == OrdOf(t)
        ymd == FromOrdinal(n)
    IN
    CASE freq = "D"  -> DateTime(n + k, PartOf(t))
      [] freq = "W"  -> DateTime(n + 7 * k, PartOf(t))
      [] freq = "ME" ->
           LET mi == (ymd.y * 12 + (ymd.m - 1)) + k
               y  == mi \div 12
               m  == (mi % 12) + 1
           IN DateTime(Ordinal(y, m, DaysInMonth(y, m)), PartOf(t))
      [] freq = "YE" -> DateTime(Ordinal(ymd.y + k, 12, 31), PartOf(t))

DateRange(start_, periods_, freq) ==
    LET first == RollForward(freq, start_)
    IN [i \in 1..periods_ |-> AddOffsets(freq, first, i - 1)]

(***************************************************************************)
(* numpy conversions                                                       *)
(***************************************************************************)
RECURSIVE Pow2Floor(_, _)
\* the largest power of two p * 2^k <= v, starting from p
Pow2Floor(v, p) == IF 2 * p > v THEN p ELSE Pow2Floor(v, 2 * p)

\* numpy.float32(v) for an integer v >= 0: 24 bits of mantissa, round half to even
ToFloat32(v) ==
    IF v < 16777216 THEN v
    ELSE LET ulp == Pow2Floor(v, 1) \div 8388608
             q   == v \div ulp
             r   == v % ulp
         IN IF 2 * r < ulp THEN q * ulp
            ELSE IF 2 * r > ulp THEN (q + 1) * ulp
            ELSE IF q % 2 = 0 THEN q * ulp ELSE (q + 1) * ulp

(***************************************************************************)
(* Inputs of the resampler.                                                *)
(***************************************************************************)
\* the start dates tried: a window holding a month end that is not a year
\* end (Nov 30), a year end (Dec 31) and every weekday
WindowFirst == Ordinal(2023, 11, 22)

WindowDays == 40

StartTimes ==
    {DateTime(WindowFirst + d, q) : d \in 0..(WindowDays - 1), q \in PartsOfDay}

FinishTimes(start_) ==
    {t \in {DateTime(OrdOf(start_) + d, q) : d \in 0..MaxSpanDays, q \in PartsOfDay} :
        t >= start_}

Requests == {"year", "month", "week", "day"}

\* the columns of the matrix (the resampler copies rows whole)
Cats == {1}

RowValues == [Cats -> 0..MaxVal]

\* cumulative matrices: every category is non-decreasing down the rows
IsCumulative(m) ==
    \A k \in 1..(Len(m) - 1) : \A c \in DOMAIN m[k] : m[k][c] <= m[k + 1][c]

RECURSIVE SeqsOfLen(_, _)
SeqsOfLen(S, n) ==
    IF n = 0 THEN {<<>>}
    ELSE {Append(s, x) : s \in SeqsOfLen(S, n - 1), x \in S}

DailyMatrices ==
    {m \in UNION {SeqsOfLen(RowValues, r) : r \in 1..MaxRows} : IsCumulative(m)}

(***************************************************************************)
(* Inputs of _plot_languages_chart.                                        *)
(***************************************************************************)
\* days holds keys among 0..MaxDay
MaxDay == 2

\* top_n = 10
TopN == 10

\* the named languages of the inputs, in sorted() order
LangOrder == <<"Go", "Python">>

Devs == {0}

\* DevDay.Languages values: [added, removed, changed]
LineStats == {<<1, 0, 0>>, <<0, 1, 0>>}

RECURSIVE PartialFunctions(_, _)
\* every function from a subset of D to R
PartialFunctions(D, R) ==
    IF D = {} THEN {<<>>}
    ELSE LET x == CHOOSE x \in D : TRUE
             rest == PartialFunctions(D \ {x}, R)
         IN rest \cup {(x :> v) @@ f : v \in R, f \in rest}

Range(f) == {f[x] : x \in DOMAIN f}

\* one day of `days`: dev -> DevDay.Languages (language -> [added, removed, changed])
DayRecords == [Devs -> PartialFunctions(Range(LangOrder), LineStats)]

DaysInputs == PartialFunctions(0..MaxDay, DayRecords)

\* args.resample
ResampleArgs == {"year", "raw", "no"}

\* start_datetime of the chart runs: Monday 2023-12-04, midnight
ChartStart == DateTime(Ordinal(2023, 12, 4), 0)

\* end_datetime - start_datetime of the chart runs, in days
ChartSpans == {2, 8}

(***************************************************************************)
(* State: one run of _plot_languages_chart and, inside it, one call of     *)
(* _resample_language_data (with its recursive retries, which are tail     *)
(* calls on the same arguments but `resample`).                            *)
(***************************************************************************)
VARIABLES
    days,             \* day -> dev -> language -> [added, removed, changed]
    resample_arg,     \* args.resample
    top_languages,    \* the languages kept as series
    language_list,    \* the columns of `matrix`
    sorted_days,      \* sorted(days.keys())
    day_idx,          \* rows of `matrix` filled so far
    cumulative_langs, \* language -> running sum of added - removed
    matrix,           \* the per-day matrix: row k+1 = numpy row k
    plot,             \* what stackplot received: [x, y] (<<>> before)
    bpc,              \* "start", "fill", "filled", "resampling", "plotted", "returned";
                      \* "off" when the resampler is run on its own
    daily_matrix,     \* the resampler's input matrix
    start,            \* start_datetime
    finish,           \* end_datetime
    chain,            \* the `resample` argument of every nested call, outermost first
    periods,          \* the loop counter
    dgs,              \* date_granularity_sampling
    notices,          \* what has been printed
    resampled,        \* the returned matrix (<<>> before the call returns)
    result_base,      \* the buffer behind the returned matrix: "none" before the
                      \* return, "fresh" (its own) or "daily_matrix" (a view)
    error,            \* the raised exception (<<>> when none)
    pc,               \* "idle", "loop", "check", "done", "written", "raised"
    files,            \* _plot_lorenz: unique_editors of files.values(), in dict order
    gini,             \* _plot_lorenz: the Gini coefficient (<<>> before it is computed)
    lpc,              \* _plot_lorenz: "off", "start", "returned", "plotted"
    hotspot_files,    \* show_hotspot_risk: files
    bubble,           \* _plot_bubble_chart: [norm, risk_scores] (<<>> before)
    top_indices,      \* _plot_bubble_chart: top_indices, as indices from 1
    annotations,      \* _plot_bubble_chart: the filenames annotated, in order
    bars,             \* _plot_ranked_bars: the normalized factors (<<>> before)
    hpc,              \* hotspot_risk.py: "off", "start", "returned", "scored",
                      \* "annotated", "done"
    snapshots,        \* show_bus_factor, show_ownership_concentration: the ticks
                      \* that are the keys of snapshots
    tick_size,        \* tick_size, in seconds (the code's value is in ns)
    header_start_date,\* header_start_date
    bus_chart,        \* show_bus_factor: [dates, use_dates] (<<>> before)
    ownership_chart,  \* show_ownership_concentration: [dates, use_dates]
    tpc,              \* "off", "start", "returned", "bus", "done"
    weights,          \* bus_factor: weights
    threshold,        \* bus_factor: threshold, a float64
    bf_result,        \* bus_factor: the value returned (-1 before)
    fpc,              \* bus_factor: "off", "start", "done"
    author_lines,     \* _plot_gauge: author_lines.items(), in the dict's order
    total_lines,      \* _plot_gauge: total_lines
    pie,              \* _plot_gauge: [pie_labels, pie_values] (<<>> before)
    gpc,              \* _plot_gauge: "off", "start", "pie", "no_data"
    activity_args,    \* _filter_activities_by_date_range: [ticks (its items, in
                      \* order), tick_size (s), start_days, end_days]
    tick_range,       \* [start_tick, end_tick]
    tick_pos,         \* the items of ticks scanned so far
    filtered_activities, \* dev_id -> the eight arrays
    apc,              \* "off", "start", "loop", "done"
    result,           \* refactoring_proxy.py: the result dict, a record with
                      \* "ticks" and "start_date" and maybe "threshold"
    date_filter,      \* args.start_date, args.end_date parsed: <<>> when
                      \* neither is given, else <<filter_start, filter_end>>
    summary,          \* print_refactoring_summary: its counters
    timeline,         \* plot_refactoring_timeline: its loop state and regions
    rpc               \* "off", "start", "summary", "summarized", "timeline",
                      \* "done"

\* the state of _plot_lorenz
lorenzVars == <<files, gini, lpc>>

\* the state of hotspot_risk.py
hotspotVars == <<hotspot_files, bubble, top_indices, annotations, bars, hpc>>

\* the state of the tick-to-date mapping of bus_factor.py and
\* ownership_concentration.py
tickVars == <<snapshots, tick_size, header_start_date, bus_chart, ownership_chart, tpc>>

\* the state of the bus factor calculator
busFactorVars == <<weights, threshold, bf_result, fpc>>

\* the state of _plot_gauge
gaugeVars == <<author_lines, total_lines, pie, gpc>>

\* the state of _filter_activities_by_date_range
activityVars == <<activity_args, tick_range, tick_pos, filtered_activities, apc>>

\* the state of refactoring_proxy.py
refactoringVars == <<result, date_filter, summary, timeline, rpc>>

\* the state of the modes other than languages.py, _plot_lorenz and
\* hotspot_risk.py
laterVars == <<tickVars, busFactorVars, gaugeVars, activityVars, refactoringVars>>

\* the inputs of the chart, and the state of the other modes, which no step of
\* languages.py touches
inputVars == <<days, resample_arg, lorenzVars, hotspotVars, laterVars>>

listVars == <<top_languages, language_list, sorted_days>>

chartVars == <<inputVars, listVars, day_idx, cumulative_langs, matrix, plot, bpc>>

callVars == <<daily_matrix, start, finish>>

vars == <<days, resample_arg, top_languages, language_list, sorted_days,
          day_idx, cumulative_langs, matrix, plot, bpc,
          daily_matrix, start, finish, chain, periods, dgs, notices, resampled,
          result_base, error, pc, files, gini, lpc,
          hotspot_files, bubble, top_indices, annotations, bars, hpc,
          snapshots, tick_size, header_start_date, bus_chart, ownership_chart, tpc,
          weights, threshold, bf_result, fpc,
          author_lines, total_lines, pie, gpc,
          activity_args, tick_range, tick_pos, filtered_activities, apc,
          result, date_filter, summary, timeline, rpc>>

\* the state of languages.py
languagesVars == <<days, resample_arg, top_languages, language_list, sorted_days,
                   day_idx, cumulative_langs, matrix, plot, bpc,
                   daily_matrix, start, finish, chain, periods, dgs, notices,
                   resampled, result_base, error, pc>>

\* _plot_lorenz is not running
LorenzIdle ==
    /\ files = <<>>
    /\ gini = <<>>
    /\ lpc = "off"

\* hotspot_risk.py is not running
HotspotIdle ==
    /\ hotspot_files = <<>>
    /\ bubble = <<>>
    /\ top_indices = <<>>
    /\ annotations = <<>>
    /\ bars = <<>>
    /\ hpc = "off"

\* the tick-to-date mapping is not running
TickIdle ==
    /\ snapshots = {}
    /\ tick_size = 0
    /\ header_start_date = 0
    /\ bus_chart = <<>>
    /\ ownership_chart = <<>>
    /\ tpc = "off"

\* the bus factor calculator is not running
BusFactorIdle ==
    /\ weights = <<>>
    /\ threshold = <<>>
    /\ bf_result = -1
    /\ fpc = "off"

\* _plot_gauge is not running
GaugeIdle ==
    /\ author_lines = <<>>
    /\ total_lines = 0
    /\ pie = <<>>
    /\ gpc = "off"

\* _filter_activities_by_date_range is not running
ActivityIdle ==
    /\ activity_args = <<>>
    /\ tick_range = <<>>
    /\ tick_pos = 0
    /\ filtered_activities = <<>>
    /\ apc = "off"

\* refactoring_proxy.py is not running
RefactoringIdle ==
    /\ result = <<>>
    /\ date_filter = <<>>
    /\ summary = <<>>
    /\ timeline = <<>>
    /\ rpc = "off"

\* none of the later modes is running
LaterIdle == TickIdle /\ BusFactorIdle /\ GaugeIdle /\ ActivityIdle /\ RefactoringIdle

\* the state of languages.py, _plot_lorenz and hotspot_risk.py
earlyVars == <<languagesVars, lorenzVars, hotspotVars>>

\* what no step of the tick-to-date mapping touches
tickOthers == <<earlyVars, busFactorVars, gaugeVars, activityVars, refactoringVars>>

\* what no step of the bus factor calculator touches
busFactorOthers == <<earlyVars, tickVars, gaugeVars, activityVars, refactoringVars>>

\* what no step of _plot_gauge touches
gaugeOthers == <<earlyVars, tickVars, busFactorVars, activityVars, refactoringVars>>

\* what no step of _filter_activities_by_date_range touches
activityOthers == <<earlyVars, tickVars, busFactorVars, gaugeVars, refactoringVars>>

\* what no step of refactoring_proxy.py touches
refactoringOthers == <<earlyVars, tickVars, busFactorVars, gaugeVars, activityVars>>

\* what no step of _plot_lorenz touches
lorenzOthers == <<languagesVars, hotspotVars, laterVars>>

\* what no step of hotspot_risk.py touches
hotspotOthers == <<languagesVars, lorenzVars, laterVars>>

resample == Last(chain)

resample_freq == Aliases(resample)

\* the resampler called on its own, on any cumulative matrix
Init ==
    /\ days = <<>>
    /\ resample_arg = ""
    /\ top_languages = {}
    /\ language_list = <<>>
    /\ sorted_days = <<>>
    /\ day_idx = 0
    /\ cumulative_langs = <<>>
    /\ matrix = <<>>
    /\ plot = <<>>
    /\ bpc = "off"
    /\ daily_matrix \in DailyMatrices
    /\ start \in StartTimes
    /\ finish \in FinishTimes(start)
    /\ \E r \in Requests : chain = <<r>>
    /\ periods = 0
    /\ dgs = <<start>>
    /\ notices = <<>>
    /\ resampled = <<>>
    /\ result_base = "none"
    /\ error = <<>>
    /\ pc = "loop"
    /\ LorenzIdle
    /\ HotspotIdle
    /\ LaterIdle

(***************************************************************************)
(* _resample_language_data                                                 *)
(***************************************************************************)
\* mutant: the loop also runs on when the last boundary equals finish
LoopConditionInclusive == Last(dgs) <= finish

\* mutant: the loop runs until the last boundary is exactly finish
LoopConditionUntilEqual == Last(dgs) # finish

\* while date_granularity_sampling[-1] < finish
LoopCondition == Last(dgs) < finish

\* mutant: the counter advances by two
LoopIterationSkips ==
    /\ pc = "loop"
    /\ LoopCondition
    /\ periods' = periods + 2
    /\ dgs' = DateRange(start, periods + 2, resample_freq)
    /\ UNCHANGED <<chartVars, callVars, chain, notices, resampled, result_base, error, pc>>

\* periods += 1; date_granularity_sampling = pandas.date_range(start, periods, freq)
LoopIteration ==
    /\ pc = "loop"
    /\ LoopCondition
    /\ periods' = periods + 1
    /\ dgs' = DateRange(start, periods + 1, resample_freq)
    /\ UNCHANGED <<chartVars, callVars, chain, notices, resampled, result_base, error, pc>>

LoopExit ==
    /\ pc = "loop"
    /\ ~LoopCondition
    /\ pc' = "check"
    /\ UNCHANGED <<chartVars, callVars, chain, periods, dgs, notices, resampled, result_base, error>>

\* mutant: a first boundary equal to finish counts as too loose
TooLooseInclusive == Len(dgs) > 0 /\ dgs[1] >= finish

\* len(date_granularity_sampling) > 0 and date_granularity_sampling[0] > finish
TooLoose == Len(dgs) > 0 /\ dgs[1] > finish

\* the recursive call: same matrix and dates, a finer `resample`
Retry(finer, notice) ==
    /\ chain' = Append(chain, finer)
    /\ notices' = Append(notices, notice)
    /\ periods' = 0
    /\ dgs' = <<start>>
    /\ pc' = "loop"
    /\ UNCHANGED <<chartVars, callVars, resampled, result_base, error>>

\* mutant: a year request is retried by week directly
RetryByMonthSkipsMonth ==
    /\ pc = "check"
    /\ TooLoose
    /\ resample_freq \in {"A", "YE"}
    /\ Retry("W", "too loose resampling - by year, trying by month")

RetryByMonth ==
    /\ pc = "check"
    /\ TooLoose
    /\ resample_freq \in {"A", "YE"}
    /\ Retry("month", "too loose resampling - by year, trying by month")

RetryByWeek ==
    /\ pc = "check"
    /\ TooLoose
    /\ resample_freq \notin {"A", "YE"}
    /\ resample_freq \in {"M", "ME"}
    /\ Retry("W", "too loose resampling - by month, trying by week")

\* ValueError(f"Too loose resampling: {resample}. Try finer."): the type, the
\* format string and the values interpolated in it
TooLooseError(resample_) ==
    [type   |-> "ValueError",
     format |-> "Too loose resampling: {resample}. Try finer.",
     fields |-> [resample |-> resample_]]

\* mutant: a week that is too loose is retried by day
RaiseTooLooseRetriesByDay ==
    /\ pc = "check"
    /\ TooLoose
    /\ resample_freq \notin {"A", "YE", "M", "ME"}
    /\ Retry("day", "too loose resampling - by week, trying by day")

RaiseTooLoose ==
    /\ pc = "check"
    /\ TooLoose
    /\ resample_freq \notin {"A", "YE", "M", "ME"}
    /\ error' = TooLooseError(resample)
    /\ pc' = "raised"
    /\ UNCHANGED <<chartVars, callVars, chain, periods, dgs, notices, resampled, result_base>>

\* a row of numpy.zeros((..., daily_matrix.shape[1]), dtype=numpy.float32)
ZeroRow == [c \in DOMAIN daily_matrix[1] |-> 0]

\* an integer row stored into the float32 matrix
Float32Row(row) == [c \in DOMAIN row |-> ToFloat32(row[c])]

IStart(i) == IF i > 1 THEN TimedeltaDays(dgs[i - 1], start) ELSE 0

IFinish(i) == Min(TimedeltaDays(dgs[i], start), Len(daily_matrix))

\* the row the loop body leaves at resampled_matrix[i - 1]
ResampledRow(i) ==
    IF IFinish(i) > IStart(i) /\ IStart(i) < Len(daily_matrix)
    THEN Float32Row(daily_matrix[IFinish(i)])          \* daily_matrix[ifinish - 1]
    ELSE IF IStart(i) < Len(daily_matrix)
    THEN Float32Row(daily_matrix[Len(daily_matrix)])   \* daily_matrix[-1]
    ELSE ZeroRow                                       \* left as numpy.zeros

\* mutant: the result shares the buffer of the input matrix
AggregateReturnsView ==
    /\ pc = "check"
    /\ ~TooLoose
    /\ resampled' = [i \in 1..Len(dgs) |-> ResampledRow(i)]
    /\ result_base' = "daily_matrix"
    /\ pc' = "done"
    /\ UNCHANGED <<chartVars, callVars, chain, periods, dgs, notices, error>>

\* resampled_matrix = numpy.zeros(...): a new buffer, which the loop fills by
\* copying rows of daily_matrix into it, and which is returned
Aggregate ==
    /\ pc = "check"
    /\ ~TooLoose
    /\ resampled' = [i \in 1..Len(dgs) |-> ResampledRow(i)]
    /\ result_base' = "fresh"
    /\ pc' = "done"
    /\ UNCHANGED <<chartVars, callVars, chain, periods, dgs, notices, error>>

\* the value a holder of the result writes into it
WriteValue == MaxVal + 1

\* numpy row r of a matrix after m[r] = v; a row the matrix lacks is untouched
RowWritten(m, r, v) ==
    IF r \in 1..Len(m) THEN [m EXCEPT ![r] = [c \in DOMAIN m[r] |-> v]] ELSE m

\* after the return, the holder of the result writes its first or last row:
\* the write reaches every array that shares the buffer
WriteResult ==
    /\ pc = "done"
    /\ bpc = "off"
    /\ \E r \in {1, Len(resampled)} :
          /\ resampled' = RowWritten(resampled, r, WriteValue)
          /\ daily_matrix' = IF result_base = "daily_matrix"
                             THEN RowWritten(daily_matrix, r, WriteValue)
                             ELSE daily_matrix
    /\ pc' = "written"
    /\ UNCHANGED <<chartVars, start, finish, chain, periods, dgs, notices,
                   result_base, error>>

Next ==
    \/ LoopIteration
    \/ LoopExit
    \/ RetryByMonth
    \/ RetryByWeek
    \/ RaiseTooLoose
    \/ Aggregate
    \/ WriteResult

Spec == Init /\ [][Next]_vars

(***************************************************************************)
(* _plot_languages_chart                                                   *)
(***************************************************************************)
RECURSIVE SumOver(_, _)
\* sum of f[x] over x in S
SumOver(S, f) ==
    IF S = {} THEN 0
    ELSE LET x == CHOOSE x \in S : TRUE IN f[x] + SumOver(S \ {x}, f)

RECURSIVE SortedSeq(_)
\* sorted(S) for a set of integers
SortedSeq(S) ==
    IF S = {} THEN <<>>
    ELSE LET m == CHOOSE m \in S : \A x \in S : m <= x
         IN <<m>> \o SortedSeq(S \ {m})

\* the (dev, language) entries of one day of `days`
DayEntries(day) ==
    {<<dev, lang>> \in Devs \X Range(LangOrder) : lang \in DOMAIN days[day][dev]}

\* total_langs: language -> sum of sum(vals) over its entries; "" is skipped
TotalLangs ==
    LET es    == {<<day, e[1], e[2]>> : day \in DOMAIN days, e \in Devs \X Range(LangOrder)}
        real  == {e \in es : e[3] \in DOMAIN days[e[1]][e[2]] /\ e[3] # ""}
        named == {e[3] : e \in real}
    IN [lang \in named |->
          LET mine == {e \in real : e[3] = lang}
          IN SumOver(mine, [e \in mine |->
                 LET vals == days[e[1]][e[2]][lang] IN vals[1] + vals[2] + vals[3]])]

\* the languages kept as series: all of them, as no input has more than TopN
\* (beyond TopN the code keeps the TopN largest totals and adds "Other")
TopLanguages == DOMAIN TotalLangs

\* language_list = sorted(top_languages) (+ ["Other"] beyond TopN)
LanguageList ==
    LET keep(l) == l \in TopLanguages
    IN SelectSeq(LangOrder, keep)
         \o (IF Cardinality(DOMAIN TotalLangs) > TopN THEN <<"Other">> ELSE <<>>)

\* the chart runs
ChartInit ==
    /\ days \in DaysInputs
    /\ resample_arg \in ResampleArgs
    /\ top_languages = {}
    /\ language_list = <<>>
    /\ sorted_days = <<>>
    /\ day_idx = 0
    /\ cumulative_langs = <<>>
    /\ matrix = <<>>
    /\ plot = <<>>
    /\ bpc = "start"
    /\ daily_matrix = <<>>
    /\ start = ChartStart
    /\ \E d \in ChartSpans : finish = start + d * DayParts
    /\ chain = <<>>
    /\ periods = 0
    /\ dgs = <<>>
    /\ notices = <<>>
    /\ resampled = <<>>
    /\ result_base = "none"
    /\ error = <<>>
    /\ pc = "idle"
    /\ LorenzIdle
    /\ HotspotIdle
    /\ LaterIdle

\* if not top_languages: print("No language data to plot"); return
NoLanguageData ==
    /\ bpc = "start"
    /\ TopLanguages = {}
    /\ notices' = Append(notices, "No language data to plot")
    /\ bpc' = "returned"
    /\ UNCHANGED <<inputVars, listVars, day_idx, cumulative_langs, matrix, plot,
                   callVars, chain, periods, dgs, resampled, result_base, error, pc>>

\* top_languages, sorted_days, language_list, then
\* matrix = numpy.zeros((len(sorted_days), len(language_list)), dtype=int)
AllocateMatrix ==
    /\ bpc = "start"
    /\ TopLanguages # {}
    /\ top_languages' = TopLanguages
    /\ language_list' = LanguageList
    /\ sorted_days' = SortedSeq(DOMAIN days)
    /\ matrix' = [k \in 1..Cardinality(DOMAIN days) |-> [j \in 1..Len(LanguageList) |-> 0]]
    /\ cumulative_langs' = <<>>
    /\ day_idx' = 0
    /\ bpc' = "fill"
    /\ UNCHANGED <<inputVars, plot,
                   callVars, chain, periods, dgs, notices, resampled, result_base, error, pc>>

\* cumulative_langs.get(lang, 0)
Get(d, key, default) == IF key \in DOMAIN d THEN d[key] ELSE default

\* the series a language's delta is added to ("" when to none)
SeriesOf(lang) ==
    IF lang \in top_languages THEN lang
    ELSE IF lang # "" /\ \E j \in DOMAIN language_list : language_list[j] = "Other"
    THEN "Other" ELSE ""

\* mutant: the removed lines are added instead of subtracted
AfterDayAddsRemoved(cum, day) ==
    LET es     == {e \in DayEntries(day) : SeriesOf(e[2]) # ""}
        series == {SeriesOf(e[2]) : e \in es}
        delta(s) ==
            LET mine == {e \in es : SeriesOf(e[2]) = s}
            IN SumOver(mine, [e \in mine |->
                   LET vals == days[day][e[1]][e[2]] IN vals[1] + vals[2]])
    IN [s \in (DOMAIN cum) \cup series |->
          Get(cum, s, 0) + (IF s \in series THEN delta(s) ELSE 0)]

\* cumulative_langs after the entries of one day: every entry adds
\* vals[0] - vals[1] to its series
AfterDay(cum, day) ==
    LET es     == {e \in DayEntries(day) : SeriesOf(e[2]) # ""}
        series == {SeriesOf(e[2]) : e \in es}
        delta(s) ==
            LET mine == {e \in es : SeriesOf(e[2]) = s}
            IN SumOver(mine, [e \in mine |->
                   LET vals == days[day][e[1]][e[2]] IN vals[1] - vals[2]])
    IN [s \in (DOMAIN cum) \cup series |->
          Get(cum, s, 0) + (IF s \in series THEN delta(s) ELSE 0)]

\* mutant: the cumulative value is stored without the clamp at zero
MatrixRowUnclamped(cum) ==
    [j \in 1..Len(language_list) |-> Get(cum, language_list[j], 0)]

\* matrix[day_idx, lang_idx] = max(0, cumulative_langs.get(lang, 0))
MatrixRow(cum) ==
    [j \in 1..Len(language_list) |-> Max(0, Get(cum, language_list[j], 0))]

\* one iteration of `for day_idx, day in enumerate(sorted_days)`
FillDay ==
    /\ bpc = "fill"
    /\ day_idx < Len(sorted_days)
    /\ LET cum == AfterDay(cumulative_langs, sorted_days[day_idx + 1])
       IN /\ cumulative_langs' = cum
          /\ matrix' = [matrix EXCEPT ![day_idx + 1] = MatrixRow(cum)]
    /\ day_idx' = day_idx + 1
    /\ UNCHANGED <<inputVars, listVars, plot, bpc,
                   callVars, chain, periods, dgs, notices, resampled, result_base, error, pc>>

FillDone ==
    /\ bpc = "fill"
    /\ day_idx = Len(sorted_days)
    /\ bpc' = "filled"
    /\ UNCHANGED <<inputVars, listVars, day_idx, cumulative_langs, matrix, plot,
                   callVars, chain, periods, dgs, notices, resampled, result_base, error, pc>>

\* resample not in ("no", "raw"): matrix, date_range = _resample_language_data(...)
CallResampler ==
    /\ bpc = "filled"
    /\ resample_arg \notin {"no", "raw"}
    /\ daily_matrix' = matrix
    /\ chain' = <<resample_arg>>
    /\ periods' = 0
    /\ dgs' = <<start>>
    /\ pc' = "loop"
    /\ bpc' = "resampling"
    /\ UNCHANGED <<inputVars, listVars, day_idx, cumulative_langs, matrix, plot,
                   start, finish, notices, resampled, result_base, error>>

\* pyplot.stackplot(date_range, matrix.T, ...) on the resampler's result
PlotResampled ==
    /\ bpc = "resampling"
    /\ pc = "done"
    /\ plot' = [x |-> dgs, y |-> resampled]
    /\ bpc' = "plotted"
    /\ UNCHANGED <<inputVars, listVars, day_idx, cumulative_langs, matrix,
                   callVars, chain, periods, dgs, notices, resampled, result_base, error, pc>>

\* mutant: the first row of the per-day matrix is not plotted
PlotRawSkipsFirstRow ==
    /\ bpc = "filled"
    /\ resample_arg \in {"no", "raw"}
    /\ plot' = [x |-> DateRange(start, Len(sorted_days), "D"), y |-> Tail(matrix)]
    /\ bpc' = "plotted"
    /\ UNCHANGED <<inputVars, listVars, day_idx, cumulative_langs, matrix,
                   callVars, chain, periods, dgs, notices, resampled, result_base, error, pc>>

\* no resampling: date_range = pandas.date_range(start, periods=len(sorted_days), freq='D')
PlotRaw ==
    /\ bpc = "filled"
    /\ resample_arg \in {"no", "raw"}
    /\ plot' = [x |-> DateRange(start, Len(sorted_days), "D"), y |-> matrix]
    /\ bpc' = "plotted"
    /\ UNCHANGED <<inputVars, listVars, day_idx, cumulative_langs, matrix,
                   callVars, chain, periods, dgs, notices, resampled, result_base, error, pc>>

ChartNext ==
    \/ NoLanguageData
    \/ AllocateMatrix
    \/ FillDay
    \/ FillDone
    \/ CallResampler
    \/ PlotResampled
    \/ PlotRaw
    \/ LoopIteration
    \/ LoopExit
    \/ RetryByMonth
    \/ RetryByWeek
    \/ RaiseTooLoose
    \/ Aggregate

ChartSpec == ChartInit /\ [][ChartNext]_vars

TypeOK ==
    /\ pc \in {"idle", "loop", "check", "done", "written", "raised"}
    /\ bpc \in {"off", "start", "fill", "filled", "resampling", "plotted", "returned"}
    /\ pc = "idle" \/ Len(chain) \in 1..3
    /\ day_idx \in 0..Len(matrix)
    /\ \/ pc = "idle"
       \/ periods = 0 /\ dgs = <<start>>
       \/ periods > 0 /\ Len(dgs) = periods
    /\ (pc \in {"done", "written"}) = (resampled # <<>>)
    /\ result_base = (IF resampled = <<>> THEN "none" ELSE "fresh")
    /\ (pc = "raised") = (error # <<>>)


(***************************************************************************)
(* Vocabulary of the claims about the resampler.                           *)
(***************************************************************************)
Terminal == pc \in {"done", "raised"}

\* the day of t is a boundary of the calendar granularity freq
IsAnchor(freq, t) ==
    LET n == OrdOf(t) IN
    CASE freq = "D"  -> TRUE
      [] freq = "W"  -> Weekday(n) = 6
      [] freq = "ME" -> MonthOf(n + 1) # MonthOf(n)
      [] freq = "YE" -> YearOf(n + 1) # YearOf(n)

\* a usable boundary of granularity freq (at start's time of day) lies in [start, finish]
AnchorInside(freq) ==
    \E t \in start..finish : PartOf(t) = PartOf(start) /\ IsAnchor(freq, t)

\* (finish - start) in whole days
SpanDays == (finish - start) \div DayParts

(***************************************************************************)
(* C1 and C2 share the order of the retries: a year-level call is retried  *)
(* as month, a month-level call as week, nothing else is retried, each     *)
(* retry prints its notice, and only a call whose granularity has no       *)
(* usable boundary in [start, end] is retried.                             *)
(***************************************************************************)
RetriesInOrder ==
    /\ \A i \in 1..(Len(chain) - 1) :
          /\ Aliases(chain[i]) \in {"YE", "ME"}
          /\ (Aliases(chain[i]) = "YE") => (chain[i + 1] = "month")
          /\ (Aliases(chain[i]) = "ME") => (chain[i + 1] = "W")
          /\ ~AnchorInside(Aliases(chain[i]))
    /\ Len(notices) = Len(chain) - 1
    /\ \A i \in 1..Len(notices) :
          notices[i] = (IF Aliases(chain[i]) = "YE"
                        THEN "too loose resampling - by year, trying by month"
                        ELSE "too loose resampling - by month, trying by week")

\* an empty range: the loop body never runs and [start] is the only period
EmptyRangeReturnsStart ==
    (start = finish) =>
        /\ chain \in {<<r>> : r \in Requests}
        /\ pc # "raised"
        /\ dgs = <<start>>

(***************************************************************************)
(* C1 as stated: a year- or month-level call whose granularity has no      *)
(* usable boundary in [start, end] is retried, in the fixed order year ->  *)
(* month -> week with one notice per retry (year as month, never directly  *)
(* as week; month as week): such a call never returns a result.            *)
(***************************************************************************)
DryGranularityIsRetried ==
    /\ RetriesInOrder
    /\ (Terminal /\ resample_freq \in {"YE", "ME"}) =>
          (pc = "done" /\ AnchorInside(resample_freq))

(***************************************************************************)
(* C1 as amended: the same for start < end; for start = end nothing is     *)
(* retried and the call returns the single period [start], whatever the    *)
(* granularity asked.                                                      *)
(***************************************************************************)
FallbackOrder ==
    /\ RetriesInOrder
    /\ (Terminal /\ resample_freq \in {"YE", "ME"} /\ start < finish) =>
          (pc = "done" /\ AnchorInside(resample_freq))
    /\ EmptyRangeReturnsStart

FallbackOrderWitness ==
    /\ pc = "done"
    /\ chain = <<"year", "month", "W">>
    /\ Len(notices) = 2

(***************************************************************************)
(* C2 as stated: a week-level call (requested or reached by fallback) with *)
(* no usable boundary in [start, end] raises the error and is the last     *)
(* call: nothing is retried after week, and day is never reached by        *)
(* fallback.                                                               *)
(***************************************************************************)
NoRetryBelowWeek ==
    /\ \A i \in 2..Len(chain) : Aliases(chain[i]) # "D"
    /\ \A i \in 1..Len(chain) : (Aliases(chain[i]) = "W") => (i = Len(chain))
    /\ (pc = "raised") =>
          /\ resample_freq = "W"
          /\ error.type = "ValueError"
          /\ resampled = <<>>

DryWeekRaises ==
    /\ NoRetryBelowWeek
    /\ (Terminal /\ resample_freq = "W") => ((pc = "raised") <=> ~AnchorInside("W"))

(***************************************************************************)
(* C2 as amended: the same for start < end; for start = end a week-level   *)
(* request raises nothing and returns the single period [start].           *)
(***************************************************************************)
WeekIsTheFloor ==
    /\ NoRetryBelowWeek
    /\ (pc = "check" /\ resample_freq = "W" /\ ~AnchorInside("W") /\ start < finish)
          => TooLoose
    /\ (Terminal /\ resample_freq = "W" /\ start < finish) =>
          ((pc = "raised") <=> ~AnchorInside("W"))
    /\ EmptyRangeReturnsStart

WeekIsTheFloorWitness ==
    /\ pc = "raised"
    /\ chain = <<"year", "month", "W">>
    /\ ~AnchorInside("W")

(***************************************************************************)
(* C3: every resampled row, the first included, is the row of the last     *)
(* daily slot on or before its boundary.  Slot k is dated start + k days;  *)
(* the row of the slot that ends at the boundary (k = days - 1) is         *)
(* accepted as well, so that the statement does not hinge on how a slot is *)
(* dated.                                                                  *)
(***************************************************************************)
SlotRow(k) == Float32Row(daily_matrix[k + 1])

PointSampled(i) ==
    LET d    == TimedeltaDays(dgs[i], start)
        rows == Len(daily_matrix)
    IN \/ resampled[i] = SlotRow(Min(d, rows - 1))
       \/ d >= 1 /\ resampled[i] = SlotRow(Min(d, rows) - 1)

PointSampling ==
    (pc = "done") => \A i \in 1..Len(resampled) : PointSampled(i)

(***************************************************************************)
(* C4: for a cumulative input matrix the resampled series is non-          *)
(* decreasing in every category, whatever the number of rows.              *)
(***************************************************************************)
ResampledMonotone ==
    (pc = "done" /\ IsCumulative(daily_matrix)) =>
        \A i \in 1..(Len(resampled) - 1) : \A c \in DOMAIN resampled[i] :
            resampled[i][c] <= resampled[i + 1][c]

ErrorCarriesRequestAndRange ==
    (pc = "raised") =>
        /\ resample_freq = "W"
        /\ error.fields.resample = chain[1]
        /\ {"start_datetime", "end_datetime"} \subseteq DOMAIN error.fields

(***************************************************************************)
(* C7 as stated: a yearly request over a range covering 10 days falls back *)
(* to monthly, then to weekly, and returns weekly boundaries, for every    *)
(* start date.                                                             *)
(***************************************************************************)
TenDayRange == SpanDays \in {9, 10}

TenDayYearlyEndsWeekly ==
    (Terminal /\ chain[1] = "year" /\ TenDayRange) =>
        /\ pc = "done"
        /\ chain = <<"year", "month", "W">>
        /\ \A i \in 1..Len(dgs) : IsAnchor("W", dgs[i])

(***************************************************************************)
(* C7 as amended: the yearly request over a 10-day range never raises; it  *)
(* falls back to monthly, then weekly, and returns weekly boundaries       *)
(* exactly when no month end lies in [start, end]; when a month end other  *)
(* than Dec 31 lies in the range it returns monthly boundaries after one   *)
(* retry, and when Dec 31 does it returns yearly boundaries at once.       *)
(***************************************************************************)
TenDayYearlyByAnchors ==
    (Terminal /\ chain[1] = "year" /\ TenDayRange) =>
        /\ pc = "done"
        /\ \A i \in 1..Len(dgs) : IsAnchor(resample_freq, dgs[i])
        /\ chain = (IF AnchorInside("YE") THEN <<"year">>
                    ELSE IF AnchorInside("ME") THEN <<"year", "month">>
                    ELSE <<"year", "month", "W">>)

TenDayYearlyByAnchorsWitness ==
    /\ pc = "done"
    /\ TenDayRange
    /\ chain = <<"year", "month", "W">>
    /\ Len(dgs) >= 2

(***************************************************************************)
(* C8 as stated: over a range of under 7 days a yearly, monthly or weekly  *)
(* request ends with the weekly attempt failing and the error raised, for  *)
(* every start date.                                                       *)
(***************************************************************************)
UnderSevenDays == finish - start < 7 * DayParts

UnderSevenDaysRaises ==
    (Terminal /\ chain[1] \in {"year", "month", "week"} /\ UnderSevenDays) =>
        (pc = "raised" /\ resample_freq = "W")

(***************************************************************************)
(* C8 as amended: over a non-empty range of under 7 days the request ends  *)
(* with the weekly attempt failing and the error raised exactly when no    *)
(* boundary of the requested granularity or of a finer one down to week    *)
(* (Dec 31 for year, a month end for year and month, a Sunday for all      *)
(* three) lies in [start, end]; otherwise it returns boundaries of the     *)
(* coarsest such granularity.  For start = end it returns [start].         *)
(***************************************************************************)
Attempted(request) ==
    CASE request = "year"  -> {"YE", "ME", "W"}
      [] request = "month" -> {"ME", "W"}
      [] request = "week"  -> {"W"}

UnderSevenDaysRaisesWithoutAnchor ==
    (Terminal /\ chain[1] \in {"year", "month", "week"} /\ UnderSevenDays) =>
        IF start = finish
        THEN pc = "done" /\ dgs = <<start>> /\ Len(chain) = 1
        ELSE /\ (pc = "raised") <=> (\A f \in Attempted(chain[1]) : ~AnchorInside(f))
             /\ (pc = "raised") => (resample_freq = "W")
             /\ (pc = "done") =>
                   /\ AnchorInside(resample_freq)
                   /\ \A i \in 1..Len(dgs) : IsAnchor(resample_freq, dgs[i])

UnderSevenDaysRaisesWitness ==
    /\ pc = "raised"
    /\ chain = <<"year", "month", "W">>
    /\ UnderSevenDays
    /\ finish > start

(***************************************************************************)
(* C9.  The calendar units between start and end are counted as the        *)
(* difference of their calendar indices: days, Monday-to-Sunday weeks,     *)
(* months, years.                                                          *)
(***************************************************************************)
WeekIndex(n) == (n - 1) \div 7

MonthIndex(n) == YearOf(n) * 12 + MonthOf(n)

CalendarUnitsBetween(freq) ==
    LET a == OrdOf(start)
        b == OrdOf(finish)
    IN CASE freq = "D"  -> b - a
         [] freq = "W"  -> WeekIndex(b) - WeekIndex(a)
         [] freq = "ME" -> MonthIndex(b) - MonthIndex(a)
         [] freq = "YE" -> YearOf(b) - YearOf(a)

\* C9 as stated: never more periods than the calendar units between start
\* and end, plus one.
PeriodCountPlusOne ==
    (pc = "done") => Len(dgs) <= CalendarUnitsBetween(resample_freq) + 1

\* C9 as amended: never more periods than the calendar units between start
\* and end, plus two (the boundary at or after end is returned as well, and
\* it may fall in the unit after the one of end).
PeriodCountPlusTwo ==
    (pc = "done") =>
        /\ Len(resampled) = Len(dgs)
        /\ Len(dgs) <= CalendarUnitsBetween(resample_freq) + 2

PeriodCountPlusTwoWitness ==
    /\ pc = "done"
    /\ Len(dgs) = CalendarUnitsBetween(resample_freq) + 2
    /\ Len(dgs) >= 3

(***************************************************************************)
(* Vocabulary of the claims about the per-day matrix.                      *)
(***************************************************************************)
\* added - removed of a language on a day, over all developers
NetOn(lang, day) ==
    LET ds == {dev \in Devs : lang \in DOMAIN days[day][dev]}
    IN SumOver(ds, [dev \in ds |-> days[day][dev][lang][1] - days[day][dev][lang][2]])

RECURSIVE NetUpTo(_, _)
\* added - removed of a language over the first k days of sorted_days
NetUpTo(lang, k) ==
    IF k = 0 THEN 0 ELSE NetUpTo(lang, k - 1) + NetOn(lang, sorted_days[k])

\* the language has an entry on one of the first k days
ObservedBy(lang, k) ==
    \E i \in 1..k : \E dev \in Devs : lang \in DOMAIN days[sorted_days[i]][dev]

MatrixClampedAtZero ==
    (bpc \in {"fill", "filled"}) =>
        \A k \in 1..Len(matrix) : \A j \in 1..Len(language_list) :
            /\ matrix[k][j] >= 0
            /\ (k <= day_idx /\ NetUpTo(language_list[j], k) < 0) => (matrix[k][j] = 0)

MatrixClampedAtZeroWitness ==
    /\ bpc = "filled"
    /\ \E k \in 1..Len(matrix) : \E j \in 1..Len(language_list) :
          /\ NetUpTo(language_list[j], k) < 0
          /\ matrix[k][j] = 0

(***************************************************************************)
(* C12: before resampling the per-day matrix has one slot per calendar day *)
(* of the range, and a day with no recorded delta for a category holds the *)
(* value of the day before.  The range is taken from day 0 or from the     *)
(* first recorded day, and up to the last recorded day or to end, so that  *)
(* the statement does not hinge on where the range is anchored.            *)
(***************************************************************************)
\* the forward-filled value of a language on calendar day d
CumulativeAsOf(lang, d) ==
    LET upto == {day \in DOMAIN days : day <= d}
    IN Max(0, SumOver(upto, [day \in upto |-> NetOn(lang, day)]))

ForwardFilled ==
    (bpc = "filled") =>
        \E first \in {0, sorted_days[1]} :
        \E n \in {SpanDays, SpanDays + 1, Last(sorted_days) - first + 1} :
            /\ Len(matrix) = n
            /\ \A k \in 1..n : \A j \in 1..Len(language_list) :
                  matrix[k][j] = CumulativeAsOf(language_list[j], first + k - 1)

(***************************************************************************)
(* C13: with args.resample 'raw' or 'no' the resampler is never invoked    *)
(* and the matrix handed to stackplot is the per-day matrix, row for row.  *)
(***************************************************************************)
RawIsIdentity ==
    (resample_arg \in {"no", "raw"}) =>
        /\ pc = "idle" /\ chain = <<>> /\ resampled = <<>> /\ error = <<>>
        /\ (bpc = "plotted") =>
              /\ plot.y = matrix
              /\ Len(plot.y) = Len(sorted_days)
              /\ Len(plot.x) = Len(plot.y)
              /\ \A k \in 1..Len(plot.y) : \A j \in 1..Len(language_list) :
                    plot.y[k][j] = Max(0, NetUpTo(language_list[j], k))

RawIsIdentityWitness ==
    /\ bpc = "plotted"
    /\ resample_arg = "raw"
    /\ Len(plot.y) >= 2
    /\ plot.y[1] # plot.y[2]

(***************************************************************************)
(* C14: no step of a call (loop, fallback, raise, aggregation) changes the *)
(* input daily matrix, the result never shares the input's buffer, and a   *)
(* later write to the result leaves the input as it was.                   *)
(***************************************************************************)
InputIsReadOnly ==
    /\ [](result_base # "daily_matrix")
    /\ []((pc \in {"done", "written"}) => (result_base = "fresh"))
    /\ [][daily_matrix' = daily_matrix]_vars

InputIsReadOnlyWitness ==
    /\ pc = "written"
    /\ Len(chain) >= 2
    /\ result_base = "fresh"
    /\ \E i \in 1..Len(resampled) : resampled[i] # ResampledRow(i)

(***************************************************************************)
(* IEEE-754 binary64 arithmetic, as numpy computes with float64 arrays.    *)
(* A natural number of any size is a sequence of limbs in base LimbBase,   *)
(* least significant first, with no leading zero limb (zero is <<>>).      *)
(***************************************************************************)
LimbBits == 15

LimbBase == 32768

MantissaBits == 53

RECURSIVE Pow2(_)
\* 2^k, for k below 31
Pow2(k) == IF k = 0 THEN 1 ELSE 2 * Pow2(k - 1)

RECURSIVE BigNorm(_)
BigNorm(a) ==
    IF a = <<>> THEN <<>>
    ELSE IF a[Len(a)] = 0 THEN BigNorm(SubSeq(a, 1, Len(a) - 1)) ELSE a

RECURSIVE BigFromInt(_)
BigFromInt(n) ==
    IF n = 0 THEN <<>> ELSE <<n % LimbBase>> \o BigFromInt(n \div LimbBase)

Limb(a, i) == IF i \in 1..Len(a) THEN a[i] ELSE 0

RECURSIVE BigAddFrom(_, _, _, _)
BigAddFrom(a, b, i, carry) ==
    IF i > Len(a) /\ i > Len(b)
    THEN (IF carry = 0 THEN <<>> ELSE <<carry>>)
    ELSE LET t == Limb(a, i) + Limb(b, i) + carry
         IN <<t % LimbBase>> \o BigAddFrom(a, b, i + 1, t \div LimbBase)

BigAdd(a, b) == BigAddFrom(a, b, 1, 0)

RECURSIVE BigSubFrom(_, _, _, _)
BigSubFrom(a, b, i, borrow) ==
    IF i > Len(a) THEN <<>>
    ELSE LET t == Limb(a, i) - Limb(b, i) - borrow
         IN IF t < 0 THEN <<t + LimbBase>> \o BigSubFrom(a, b, i + 1, 1)
                     ELSE <<t>> \o BigSubFrom(a, b, i + 1, 0)

\* a - b, for a >= b
BigSub(a, b) == BigNorm(BigSubFrom(a, b, 1, 0))

RECURSIVE BigCmpFrom(_, _, _)
BigCmpFrom(a, b, i) ==
    IF i = 0 THEN 0
    ELSE IF a[i] < b[i] THEN -1
    ELSE IF a[i] > b[i] THEN 1
    ELSE BigCmpFrom(a, b, i - 1)

\* -1, 0 or 1 as a < b, a = b or a > b
BigCmp(a, b) ==
    IF Len(a) < Len(b) THEN -1
    ELSE IF Len(a) > Len(b) THEN 1
    ELSE BigCmpFrom(a, b, Len(a))

RECURSIVE BigMulSmallFrom(_, _, _, _)
BigMulSmallFrom(a, k, i, carry) ==
    IF i > Len(a) THEN (IF carry = 0 THEN <<>> ELSE <<carry>>)
    ELSE LET t == a[i] * k + carry
         IN <<t % LimbBase>> \o BigMulSmallFrom(a, k, i + 1, t \div LimbBase)

\* a * k, for k < LimbBase
BigMulSmall(a, k) == IF k = 0 THEN <<>> ELSE BigMulSmallFrom(a, k, 1, 0)

\* a * LimbBase^n
BigShiftLimbs(a, n) == IF a = <<>> THEN <<>> ELSE [i \in 1..n |-> 0] \o a

RECURSIVE BigMulFrom(_, _, _)
BigMulFrom(a, b, i) ==
    IF i > Len(b) THEN <<>>
    ELSE BigAdd(BigShiftLimbs(BigMulSmall(a, b[i]), i - 1), BigMulFrom(a, b, i + 1))

BigMul(a, b) == BigMulFrom(a, b, 1)

RECURSIVE BigDivSmallFrom(_, _, _, _)
\* the quotient and the remainder of the limbs i, i-1, .. 1 of a, rem carried in
BigDivSmallFrom(a, k, i, rem) ==
    IF i = 0 THEN [q |-> <<>>, r |-> rem]
    ELSE LET cur  == rem * LimbBase + a[i]
             rest == BigDivSmallFrom(a, k, i - 1, cur % k)
         IN [q |-> Append(rest.q, cur \div k), r |-> rest.r]

\* [q, r]: a = q * k + r, for 0 < k < LimbBase
BigDivSmall(a, k) ==
    LET d == BigDivSmallFrom(a, k, Len(a), 0)
    IN [q |-> BigNorm(d.q), r |-> d.r]

RECURSIVE IntBitLen(_)
IntBitLen(n) == IF n = 0 THEN 0 ELSE 1 + IntBitLen(n \div 2)

\* the number of bits of a
BitLen(a) == IF a = <<>> THEN 0 ELSE LimbBits * (Len(a) - 1) + IntBitLen(a[Len(a)])

\* a * 2^s
BigShl(a, s) == BigShiftLimbs(BigMulSmall(a, Pow2(s % LimbBits)), s \div LimbBits)

\* floor(a / 2^s)
BigShr(a, s) ==
    LET drop == s \div LimbBits
    IN IF drop >= Len(a) THEN <<>>
       ELSE BigDivSmall(SubSeq(a, drop + 1, Len(a)), Pow2(s % LimbBits)).q

BigIsOdd(a) == a # <<>> /\ a[1] % 2 = 1

BigOne == <<1>>

\* a float64 >= 0 is [m, e]: the value m * 2^e with m of MantissaBits bits
\* (zero is m = <<>>, e = 0)
FZero == [m |-> <<>>, e |-> 0]

\* the float64 nearest to M * 2^E (ties to even)
FRound(M, E) ==
    IF M = <<>> THEN FZero
    ELSE LET L == BitLen(M) IN
         IF L <= MantissaBits
         THEN [m |-> BigShl(M, MantissaBits - L), e |-> E - (MantissaBits - L)]
         ELSE LET s    == L - MantissaBits
                  q    == BigShr(M, s)
                  rem  == BigSub(M, BigShl(q, s))
                  c    == BigCmp(rem, BigShl(BigOne, s - 1))
                  up   == c = 1 \/ (c = 0 /\ BigIsOdd(q))
                  q2   == IF up THEN BigAdd(q, BigOne) ELSE q
              IN IF BitLen(q2) > MantissaBits
                 THEN [m |-> BigShr(q2, 1), e |-> E + s + 1]
                 ELSE [m |-> q2, e |-> E + s]

FOne == FRound(BigOne, 0)

\* x.m and y.m scaled to the smaller of the two exponents
FAligned(x, y) ==
    LET emin == Min(x.e, y.e)
    IN [a |-> BigShl(x.m, x.e - emin), b |-> BigShl(y.m, y.e - emin), e |-> emin]

\* -1, 0 or 1 as x < y, x = y or x > y
FCmp(x, y) ==
    IF x.m = <<>> THEN (IF y.m = <<>> THEN 0 ELSE -1)
    ELSE IF y.m = <<>> THEN 1
    ELSE LET al == FAligned(x, y) IN BigCmp(al.a, al.b)

\* x + y
FAdd(x, y) ==
    IF x.m = <<>> THEN y
    ELSE IF y.m = <<>> THEN x
    ELSE LET al == FAligned(x, y) IN FRound(BigAdd(al.a, al.b), al.e)

\* x - y, for x >= y
FSubAbs(x, y) ==
    IF y.m = <<>> THEN x
    ELSE LET al == FAligned(x, y) IN FRound(BigSub(al.a, al.b), al.e)

\* x - y with its sign: [neg, m, e]
FSub(x, y) ==
    IF FCmp(x, y) >= 0
    THEN LET d == FSubAbs(x, y) IN [neg |-> FALSE, m |-> d.m, e |-> d.e]
    ELSE LET d == FSubAbs(y, x) IN [neg |-> TRUE, m |-> d.m, e |-> d.e]

\* x * y
FMul(x, y) ==
    IF x.m = <<>> \/ y.m = <<>> THEN FZero
    ELSE FRound(BigMul(x.m, y.m), x.e + y.e)

\* x * 2^k (exact)
FScale(x, k) == IF x.m = <<>> THEN FZero ELSE [m |-> x.m, e |-> x.e + k]

\* the bits of the quotient kept before rounding a / b
DivGuardBits == 75

\* float64(a) / float64(b), for integers 0 <= a and 0 < b < LimbBase
FDivInts(a, b) ==
    IF a = 0 THEN FZero
    ELSE LET d == BigDivSmall(BigShl(BigFromInt(a), DivGuardBits), b)
             sticky == IF d.r > 0 THEN BigOne ELSE <<>>
         IN FRound(BigAdd(BigMulSmall(d.q, 2), sticky), -(DivGuardBits + 1))

\* a digit q of base LimbBase with q * d <= cur < (q + 1) * d, for cur < d * LimbBase
\* and d with a top limb of at least LimbBase / 2: the estimate from the top
\* limbs is at most 2 too large
DivDigit(cur, d) ==
    LET top == Len(d)
        est == Min(LimbBase - 1, (Limb(cur, top + 1) * LimbBase + Limb(cur, top)) \div d[top])
        fits(c) == BigCmp(BigMulSmall(d, c), cur) <= 0
    IN IF fits(est) THEN est ELSE IF fits(est - 1) THEN est - 1 ELSE est - 2

RECURSIVE BigDivFrom(_, _, _, _)
\* the quotient and the remainder of the limbs i, i-1, .. 1 of a, rem carried in
BigDivFrom(a, d, i, rem) ==
    IF i = 0 THEN [q |-> <<>>, r |-> rem]
    ELSE LET cur  == BigNorm(<<a[i]>> \o rem)
             dig  == DivDigit(cur, d)
             rest == BigDivFrom(a, d, i - 1, BigSub(cur, BigMulSmall(d, dig)))
         IN [q |-> Append(rest.q, dig), r |-> rest.r]

\* [q, r]: a = q * d + r, for d with a top limb of at least LimbBase / 2
BigDiv(a, d) ==
    LET res == BigDivFrom(a, d, Len(a), <<>>)
    IN [q |-> BigNorm(res.q), r |-> res.r]

\* the shift that gives a mantissa a top limb of at least LimbBase / 2
NormShift == 7

\* the bits of the quotient kept before rounding x / y
QuotientBits == 60

\* x / y, for y > 0
FDiv(x, y) ==
    IF x.m = <<>> THEN FZero
    ELSE LET res == BigDiv(BigShl(x.m, NormShift + QuotientBits), BigShl(y.m, NormShift))
             sticky == IF res.r # <<>> THEN BigOne ELSE <<>>
         IN FRound(BigAdd(BigMulSmall(res.q, 2), sticky), x.e - y.e - QuotientBits - 1)

(***************************************************************************)
(* numpy operations on float64 arrays                                      *)
(***************************************************************************)
RECURSIVE SumFrom(_, _, _, _)
\* res += a[i] for i = from .. to, in that order
SumFrom(a, from, to, res) ==
    IF from > to THEN res ELSE SumFrom(a, from + 1, to, FAdd(res, a[from]))

RECURSIVE LaneSum(_, _, _)
\* r[j] of the unrolled loop: a[j] + a[8 + j] + .. + a[8 * b + j], in that order
LaneSum(a, j, b) ==
    IF b = 0 THEN a[j] ELSE FAdd(LaneSum(a, j, b - 1), a[8 * b + j])

\* numpy's pairwise summation of add.reduce, for up to 128 elements: a plain
\* loop below 8 elements, else 8 partial sums over the full blocks of 8,
\* combined pairwise, then the remainder added in order
NpSum(a) ==
    LET n == Len(a) IN
    IF n < 8 THEN SumFrom(a, 1, n, FZero)
    ELSE LET full == n - (n % 8)
             r == [j \in 1..8 |-> LaneSum(a, j, full \div 8 - 1)]
             res == FAdd(FAdd(FAdd(r[1], r[2]), FAdd(r[3], r[4])),
                         FAdd(FAdd(r[5], r[6]), FAdd(r[7], r[8])))
         IN SumFrom(a, full + 1, n, res)

RECURSIVE Insert(_, _)
\* x put into the ascending sequence s
Insert(s, x) ==
    IF s = <<>> THEN <<x>>
    ELSE IF x < s[1] THEN <<x>> \o s
    ELSE <<s[1]>> \o Insert(Tail(s), x)

RECURSIVE Sorted(_)
\* sorted(s), ascending
Sorted(s) == IF s = <<>> THEN <<>> ELSE Insert(Sorted(Tail(s)), s[1])

RECURSIVE CumSum(_, _)
\* numpy.cumsum(s)[i - 1]
CumSum(s, i) == IF i = 0 THEN 0 ELSE CumSum(s, i - 1) + s[i]

\* numpy.trapz(y, x) = (diff(x) * (y[1:] + y[:-1]) / 2.0).sum()
Trapz(y, x) ==
    NpSum([i \in 1..(Len(x) - 1) |->
              FScale(FMul(FSubAbs(x[i + 1], x[i]), FAdd(y[i + 1], y[i])), -1)])

\* numpy.arange(1, n + 1) / n with the origin prepended
CumFiles(n) == <<FZero>> \o [i \in 1..n |-> FDivInts(i, n)]

\* mutant: the cumulative counts are divided by the number of files
CumEditorsPerFile(editor_counts) ==
    <<FZero>> \o [i \in 1..Len(editor_counts) |->
                     FDivInts(CumSum(editor_counts, i), Len(editor_counts))]

\* numpy.cumsum(editor_counts) / total_editors with the origin prepended
CumEditors(editor_counts) ==
    LET total_editors == CumSum(editor_counts, Len(editor_counts))
    IN <<FZero>> \o [i \in 1..Len(editor_counts) |->
                        FDivInts(CumSum(editor_counts, i), total_editors)]

\* gini = 1 - 2 * numpy.trapz(cum_editors, cum_files)
GiniOf(editor_counts) ==
    FSub(FOne, FScale(Trapz(CumEditors(editor_counts), CumFiles(Len(editor_counts))), 1))

(***************************************************************************)
(* knowledge_diffusion.py: _plot_lorenz                                    *)
(***************************************************************************)
\* numpy: 0 / 0 is nan, and every operation on nan gives nan
NaN == [neg |-> FALSE, m |-> <<>>, e |-> 0, nan |-> TRUE]

\* gini = 1 - 2 * numpy.trapz(cum_editors, cum_files)
Gini(editor_counts) ==
    IF CumSum(editor_counts, Len(editor_counts)) = 0 THEN NaN
    ELSE GiniOf(editor_counts)

\* at most MaxFiles files
MaxFiles == 13

\* the unique_editors of a file
EditorValues == {0, 1, 2}

RECURSIVE DescendingSeqs(_, _)
\* the sequences of n values of S, largest first
DescendingSeqs(n, S) ==
    IF n = 0 THEN {<<>>}
    ELSE UNION {{<<w>> \o s : s \in DescendingSeqs(n - 1, {v \in S : v <= w})} : w \in S}

\* files.values(): the dict's order is the insertion order, not the sorted one
LorenzInputs == UNION {DescendingSeqs(n, EditorValues) : n \in 0..MaxFiles}

\* languages.py is not running
LanguagesIdle ==
    /\ days = <<>>
    /\ resample_arg = ""
    /\ top_languages = {}
    /\ language_list = <<>>
    /\ sorted_days = <<>>
    /\ day_idx = 0
    /\ cumulative_langs = <<>>
    /\ matrix = <<>>
    /\ plot = <<>>
    /\ bpc = "off"
    /\ daily_matrix = <<>>
    /\ start = 0
    /\ finish = 0
    /\ chain = <<>>
    /\ periods = 0
    /\ dgs = <<>>
    /\ notices = <<>>
    /\ resampled = <<>>
    /\ result_base = "none"
    /\ error = <<>>
    /\ pc = "idle"

\* languages.py, _plot_lorenz and hotspot_risk.py are not running
EarlyIdle == LanguagesIdle /\ LorenzIdle /\ HotspotIdle

TickOthersIdle == EarlyIdle /\ BusFactorIdle /\ GaugeIdle /\ ActivityIdle /\ RefactoringIdle

BusFactorOthersIdle == EarlyIdle /\ TickIdle /\ GaugeIdle /\ ActivityIdle /\ RefactoringIdle

GaugeOthersIdle == EarlyIdle /\ TickIdle /\ BusFactorIdle /\ ActivityIdle /\ RefactoringIdle

ActivityOthersIdle == EarlyIdle /\ TickIdle /\ BusFactorIdle /\ GaugeIdle /\ RefactoringIdle

RefactoringOthersIdle == EarlyIdle /\ TickIdle /\ BusFactorIdle /\ GaugeIdle /\ ActivityIdle

LorenzInit ==
    /\ LanguagesIdle
    /\ HotspotIdle
    /\ LaterIdle
    /\ files \in LorenzInputs
    /\ gini = <<>>
    /\ lpc = "start"

\* editor_counts = sorted(f["unique_editors"] for f in files.values())
editor_counts == Sorted(files)

\* n = len(editor_counts)
n == Len(editor_counts)

\* total_editors = sum(editor_counts)
total_editors == CumSum(editor_counts, n)

\* mutant: only the empty input is degenerate
DegenerateWhenEmpty == n = 0

\* if total_editors == 0 or n == 0
Degenerate == total_editors = 0 \/ n = 0

\* return: no curve, no Gini coefficient
LorenzReturn ==
    /\ lpc = "start"
    /\ Degenerate
    /\ lpc' = "returned"
    /\ UNCHANGED <<lorenzOthers, files, gini>>

\* the Lorenz curve and its Gini coefficient, which the plot shows
LorenzPlot ==
    /\ lpc = "start"
    /\ ~Degenerate
    /\ gini' = Gini(editor_counts)
    /\ lpc' = "plotted"
    /\ UNCHANGED <<lorenzOthers, files>>

LorenzNext ==
    \/ LorenzReturn
    \/ LorenzPlot

LorenzSpec == LorenzInit /\ [][LorenzNext]_vars

LorenzTypeOK ==
    /\ lpc \in {"start", "returned", "plotted"}
    /\ (lpc = "plotted") = (gini # <<>>)
    /\ (gini # <<>>) => (gini.neg \in BOOLEAN /\ BitLen(gini.m) \in {0, MantissaBits})

(***************************************************************************)
(* C15: for non-negative weights with a positive total, the Gini           *)
(* coefficient that _plot_lorenz computes lies in [0, 1].                  *)
(***************************************************************************)
GiniInUnitInterval ==
    (lpc = "plotted") =>
        /\ gini.neg => (gini.m = <<>>)
        /\ FCmp(gini, FOne) <= 0

Scales == {2, 3, 5}

Scaled(s, k) == [i \in DOMAIN s |-> k * s[i]]

GiniScaleInvariant ==
    (lpc = "plotted") =>
        \A k \in Scales : Gini(Sorted(Scaled(files, k))) = gini

GiniScaleInvariantWitness ==
    /\ lpc = "plotted"
    /\ n >= 3
    /\ ~gini.neg
    /\ gini.m # <<>>
    /\ FCmp(gini, FOne) < 0

(***************************************************************************)
(* hotspot_risk.py: the inline risk scores of _plot_bubble_chart and the   *)
(* normalized factors of _plot_ranked_bars                                 *)
(***************************************************************************)
\* numpy.log(k) in float64, for the k = size + 1 of the inputs
Log(k) ==
    CASE k = 1 -> FZero
      [] k = 2 -> [m |-> <<14831, 32244, 14603, 177>>, e |-> -53]
      [] k = 3 -> [m |-> <<779, 30042, 20393, 140>>, e |-> -52]
      [] k = 4 -> [m |-> <<14831, 32244, 14603, 177>>, e |-> -52]

IsNaN(x) == "nan" \in DOMAIN x

\* an integer array divided by an integer: float64 true division, x / 0 not
\* finite, x / x exactly 1.0
TrueDivide(a, b) == IF b = 0 THEN NaN ELSE IF a = b THEN FOne ELSE FDivInts(a, b)

\* x / y on float64, y = 0 not finite, x / x exactly 1.0
Divide(x, y) ==
    IF IsNaN(x) \/ IsNaN(y) \/ y.m = <<>> THEN NaN
    ELSE IF x = y THEN FOne
    ELSE FDiv(x, y)

\* x * y on float64
Multiply(x, y) == IF IsNaN(x) \/ IsNaN(y) THEN NaN ELSE FMul(x, y)

\* the paths of the inputs, in lexicographic order; a path is the sequence of
\* its components
AllPaths ==
    <<<<"a.py">>, <<"lib", "a.py">>, <<"lib", "b.py">>, <<"lib", "c.py">>,
      <<"src", "a.py">>, <<"src", "x", "b.py">>, <<"src", "x", "c.py">>,
      <<"z.py">>>>

\* the path of the file at each position of `files`: not in path order
PathAt == <<3, 1, 5, 2, 8, 4, 7, 6>>

\* the position of a path in the lexicographic order
PathRank(p) == CHOOSE r \in 1..Len(AllPaths) : AllPaths[r] = p

\* at most MaxRiskFiles files
MaxRiskFiles == 6

\* lists of up to MaxVariedFiles files take every combination of factors
MaxVariedFiles == 2

\* [size, churn, coupling_degree, ownership_gini]
AllFactors ==
    [size : {0, 3}, churn : {0, 2}, coupling_degree : {0, 2},
     ownership_gini : {FZero, FDivInts(3, 10)}]

\* the factors of the longer lists: scores 0.15 and 1.0
LowFactors ==
    [size |-> 1, churn |-> 2, coupling_degree |-> 2, ownership_gini |-> FDivInts(3, 10)]

HighFactors ==
    [size |-> 3, churn |-> 2, coupling_degree |-> 2, ownership_gini |-> FOne]

\* a file dict: the factors and the path of its position
FileAt(i, f) ==
    [path |-> AllPaths[PathAt[i]], size |-> f.size, churn |-> f.churn,
     coupling_degree |-> f.coupling_degree, ownership_gini |-> f.ownership_gini]

\* the lists of len files of every combination of factors
FileLists(len) ==
    {[i \in 1..len |-> FileAt(i, fs[i])] : fs \in [1..len -> AllFactors]}

\* the lists of len files of equal score, but one at most that scores higher
TieLists(len) ==
    {[i \in 1..len |-> FileAt(i, IF i = high THEN HighFactors ELSE LowFactors)] :
        high \in 0..len}

HotspotInputs ==
    UNION ({FileLists(len) : len \in 0..MaxVariedFiles}
           \cup {TieLists(len) : len \in 0..MaxRiskFiles})

\* languages.py and _plot_lorenz are not running
HotspotOthersIdle == LanguagesIdle /\ LorenzIdle /\ LaterIdle

HotspotInit ==
    /\ HotspotOthersIdle
    /\ hotspot_files \in HotspotInputs
    /\ bubble = <<>>
    /\ top_indices = <<>>
    /\ annotations = <<>>
    /\ bars = <<>>
    /\ hpc = "start"

\* paths, sizes, churns, couplings, ginis of show_hotspot_risk
paths == [i \in 1..Len(hotspot_files) |-> hotspot_files[i].path]

sizes == [i \in 1..Len(hotspot_files) |-> hotspot_files[i].size]

churns == [i \in 1..Len(hotspot_files) |-> hotspot_files[i].churn]

couplings == [i \in 1..Len(hotspot_files) |-> hotspot_files[i].coupling_degree]

ginis == [i \in 1..Len(hotspot_files) |-> hotspot_files[i].ownership_gini]

\* if not files: print("No hotspot risk data available."); return
HotspotNoData ==
    /\ hpc = "start"
    /\ hotspot_files = <<>>
    /\ hpc' = "returned"
    /\ UNCHANGED <<hotspotOthers, hotspot_files, bubble, top_indices, annotations, bars>>

RECURSIVE ArrayMaxFrom(_, _)
ArrayMaxFrom(a, i) == IF i = 1 THEN a[1] ELSE Max(ArrayMaxFrom(a, i - 1), a[i])

\* a.max()
ArrayMax(a) == ArrayMaxFrom(a, Len(a))

\* mutant: the maximum is used as it is
MaxAsIs(a) == ArrayMax(a)

\* a.max() if a.max() > 0 else 1
MaxOrOne(a) == IF ArrayMax(a) > 0 THEN ArrayMax(a) ELSE 1

\* churn_norm, coupling_norm and size_norm as both charts compute them
NormalizedFactors ==
    LET max_churn    == MaxOrOne(churns)
        max_coupling == MaxOrOne(couplings)
        max_size     == MaxOrOne(sizes)
    IN [churn_norm    |-> [i \in DOMAIN churns |-> TrueDivide(churns[i], max_churn)],
        coupling_norm |-> [i \in DOMAIN couplings |-> TrueDivide(couplings[i], max_coupling)],
        size_norm     |-> [i \in DOMAIN sizes |->
                              Divide(Log(sizes[i] + 1), Log(max_size + 1))]]

\* mutant: the ownership term is left out of the product
RiskScoresWithoutGini(f) ==
    [i \in DOMAIN ginis |->
        Multiply(Multiply(f.size_norm[i], f.churn_norm[i]), f.coupling_norm[i])]

\* risk_scores = size_norm * churn_norm * coupling_norm * ginis
RiskScores(f) ==
    [i \in DOMAIN ginis |->
        Multiply(Multiply(Multiply(f.size_norm[i], f.churn_norm[i]), f.coupling_norm[i]),
                 ginis[i])]

\* _plot_bubble_chart: the normalized factors and the inline risk scores
BubbleScore ==
    /\ hpc = "start"
    /\ hotspot_files # <<>>
    /\ LET norm == NormalizedFactors
       IN bubble' = [norm |-> norm, risk_scores |-> RiskScores(norm)]
    /\ hpc' = "scored"
    /\ UNCHANGED <<hotspotOthers, hotspot_files, top_indices, annotations, bars>>

RECURSIVE TopSequences(_, _, _)
\* the sequences of k indices among `left` that take a largest score first:
\* equal scores come in any order, as argsort's default sort is not stable
TopSequences(scores, left, k) ==
    IF k = 0 \/ left = {} THEN {<<>>}
    ELSE LET best == {i \in left : \A j \in left : FCmp(scores[j], scores[i]) <= 0}
         IN UNION {{<<i>> \o s : s \in TopSequences(scores, left \ {i}, k - 1)} : i \in best}

\* the files annotated
TopCount == 5

\* np.argsort(risk_scores)[-5:][::-1], as indices from 1
ArgsortTop(scores) == TopSequences(scores, DOMAIN scores, TopCount)

\* paths[idx].split('/')[-1]
Filename(p) == p[Len(p)]

\* for idx in top_indices: if risk_scores[idx] > 0: ax.annotate(filename, ...)
BubbleAnnotate ==
    /\ hpc = "scored"
    /\ \E t \in ArgsortTop(bubble.risk_scores) :
          /\ top_indices' = t
          /\ annotations' =
                LET positive(idx) == FCmp(bubble.risk_scores[idx], FZero) > 0
                IN [k \in 1..Len(SelectSeq(t, positive)) |->
                       Filename(paths[SelectSeq(t, positive)[k]])]
    /\ hpc' = "annotated"
    /\ UNCHANGED <<hotspotOthers, hotspot_files, bubble, bars>>

\* _plot_ranked_bars: the normalized factors of the stacked bars
RankedBars ==
    /\ hpc = "annotated"
    /\ LET norm == NormalizedFactors
       IN bars' = [size_norm      |-> norm.size_norm,
                   churn_norm     |-> norm.churn_norm,
                   coupling_norm  |-> norm.coupling_norm,
                   ownership_norm |-> ginis]
    /\ hpc' = "done"
    /\ UNCHANGED <<hotspotOthers, hotspot_files, bubble, top_indices, annotations>>

HotspotNext ==
    \/ HotspotNoData
    \/ BubbleScore
    \/ BubbleAnnotate
    \/ RankedBars

HotspotSpec == HotspotInit /\ [][HotspotNext]_vars

HotspotTypeOK ==
    /\ hpc \in {"start", "returned", "scored", "annotated", "done"}
    /\ (hpc \in {"scored", "annotated", "done"}) = (bubble # <<>>)
    /\ (hpc = "done") = (bars # <<>>)
    /\ Len(top_indices) <= TopCount
    /\ Len(annotations) <= Len(top_indices)


\* x is the float64 0.0
IsZero(x) == ~IsNaN(x) /\ x.m = <<>>

\* C18: the composite risk score of every file is the product size_norm *
\* churn_norm * coupling_norm * ownership_gini, and a file one of whose
\* factors is zero (normalized or raw) has score 0 whatever the others are
RiskIsProduct ==
    (bubble # <<>>) =>
        \A i \in DOMAIN bubble.risk_scores :
            LET norm == bubble.norm IN
            /\ bubble.risk_scores[i] =
                  Multiply(Multiply(Multiply(norm.size_norm[i], norm.churn_norm[i]),
                                    norm.coupling_norm[i]),
                           ginis[i])
            /\ (\/ IsZero(norm.size_norm[i]) \/ sizes[i] = 0
                \/ IsZero(norm.churn_norm[i]) \/ churns[i] = 0
                \/ IsZero(norm.coupling_norm[i]) \/ couplings[i] = 0
                \/ IsZero(ginis[i]))
               => IsZero(bubble.risk_scores[i])

\* a file whose ownership term alone is zero scored 0 beside a file scored above 0
RiskIsProductWitness ==
    /\ bubble # <<>>
    /\ \E i, j \in DOMAIN bubble.risk_scores :
          /\ sizes[i] > 0 /\ churns[i] > 0 /\ couplings[i] > 0
          /\ IsZero(ginis[i])
          /\ IsZero(bubble.risk_scores[i])
          /\ FCmp(bubble.risk_scores[j], FZero) > 0

\* every entry of the array is the float64 0.0
AllZero(a) == \A i \in DOMAIN a : IsZero(a[i])

\* no entry of the array is nan
NoNaN(a) == \A i \in DOMAIN a : ~IsNaN(a[i])

\* the normalized factors of one chart are finite, and 0 where the maximum is 0
ZeroMaximaGiveZero(norm) ==
    /\ NoNaN(norm.churn_norm) /\ NoNaN(norm.coupling_norm) /\ NoNaN(norm.size_norm)
    /\ (ArrayMax(churns) = 0) => AllZero(norm.churn_norm)
    /\ (ArrayMax(couplings) = 0) => AllZero(norm.coupling_norm)
    /\ (ArrayMax(sizes) = 0) => AllZero(norm.size_norm)

\* C19: in the bubble chart and in the ranked bars, a zero max_churn gives
\* churn_norm 0 everywhere, a zero max_coupling gives coupling_norm 0
\* everywhere, all sizes zero give size_norm 0 everywhere, and no
\* normalized factor or risk score comes from a division by zero
NormalizationNeverFails ==
    /\ (bubble # <<>>) => (ZeroMaximaGiveZero(bubble.norm) /\ NoNaN(bubble.risk_scores))
    /\ (bars # <<>>) => ZeroMaximaGiveZero(bars)

\* both charts drawn for two files or more whose three maxima are all zero
NormalizationNeverFailsWitness ==
    /\ hpc = "done"
    /\ Len(hotspot_files) >= 2
    /\ ArrayMax(churns) = 0
    /\ ArrayMax(couplings) = 0
    /\ ArrayMax(sizes) = 0
    /\ AllZero(bars.churn_norm) /\ AllZero(bubble.norm.size_norm)

RECURSIVE RankedByPath(_, _)
\* the indices of `left` by descending score, equal scores by ascending path
RankedByPath(scores, left) ==
    IF left = {} THEN <<>>
    ELSE LET first == CHOOSE i \in left : \A j \in left \ {i} :
                          \/ FCmp(scores[j], scores[i]) < 0
                          \/ /\ FCmp(scores[j], scores[i]) = 0
                             /\ PathRank(paths[j]) > PathRank(paths[i])
         IN <<first>> \o RankedByPath(scores, left \ {first})

\* C20: the indices annotated are the first five of the files ranked by
\* descending composite score with ties broken by path
TopFiveByScoreThenPath ==
    (hpc \in {"annotated", "done"}) =>
        top_indices = SubSeq(RankedByPath(bubble.risk_scores, DOMAIN bubble.risk_scores),
                             1, Min(TopCount, Len(hotspot_files)))


\* the position of index i in top_indices, 0 when it is not among them
RankOf(i) ==
    IF \E k \in DOMAIN top_indices : top_indices[k] = i
    THEN CHOOSE k \in DOMAIN top_indices : top_indices[k] = i
    ELSE 0

\* C21: a file of size 0 among files of size > 0 has composite score 0
\* whatever its churn, coupling and ownership are, and it ranks last: after
\* every file of positive score, and by path among the files of score 0
ZeroSizeRanksLast ==
    (hpc \in {"annotated", "done"}) =>
        \A i \in DOMAIN sizes :
            (sizes[i] = 0 /\ ArrayMax(sizes) > 0) =>
                /\ IsZero(bubble.risk_scores[i])
                /\ \A j \in DOMAIN sizes :
                      (RankOf(i) > 0 /\ FCmp(bubble.risk_scores[j], FZero) > 0)
                          => (RankOf(j) > 0 /\ RankOf(j) < RankOf(i))
                /\ \A j \in DOMAIN sizes :
                      (/\ RankOf(i) > 0 /\ RankOf(j) > 0
                       /\ IsZero(bubble.risk_scores[j])
                       /\ PathRank(paths[i]) < PathRank(paths[j]))
                          => RankOf(i) < RankOf(j)


(***************************************************************************)
(* bus_factor.py, ownership_concentration.py: ticks converted to dates     *)
(***************************************************************************)
\* float(a) for an integer a >= 0 given by its limbs
FFromBig(a) == FRound(a, 0)

\* float(k) for an integer k >= 0
FFromInt(k) == FFromBig(BigFromInt(k))

\* math.modf(x) for x >= 0: the integral part as an integer, the fraction as a float
Modf(x) ==
    IF x.m = <<>> THEN [int |-> <<>>, frac |-> FZero]
    ELSE IF x.e >= 0 THEN [int |-> BigShl(x.m, x.e), frac |-> FZero]
    ELSE LET whole == BigShr(x.m, -x.e)
         IN [int |-> whole, frac |-> FRound(BigSub(x.m, BigShl(whole, -x.e)), x.e)]

\* 0.5
FHalf == FScale(FOne, -1)

\* us_per_day of CPython's _datetimemodule.c
MicrosecondsPerDay == BigMul(BigFromInt(86400), BigFromInt(1000000))

\* timedelta(days=x) for a float x >= 0, as its microseconds: CPython's accum
\* keeps the whole days exactly, multiplies the fraction by us_per_day in
\* float64 and rounds what is left of a microsecond half to even
TimedeltaOfDays(x) ==
    LET whole    == Modf(x)
        sum      == BigMul(whole.int, MicrosecondsPerDay)
        us       == Modf(FMul(FFromBig(MicrosecondsPerDay), whole.frac))
        y        == BigAdd(sum, us.int)
        half     == FCmp(us.frac, FHalf)
        whole_us == IF half > 0 \/ (half = 0 /\ BigIsOdd(y)) THEN BigOne ELSE <<>>
    IN IF whole.frac.m = <<>> THEN sum ELSE BigAdd(y, whole_us)

\* nanoseconds_per_day = 24 * 60 * 60 * 1_000_000_000
nanoseconds_per_day == BigMul(BigFromInt(24 * 60 * 60), BigFromInt(1000000000))

\* tick_size in nanoseconds, for tick_size > 0
TickSizeNs == BigMul(BigFromInt(tick_size), BigFromInt(1000000000))

\* ticks = sorted(snapshots.keys())
ticks == SortedSeq(snapshots)

\* datetime.fromtimestamp(header_start_date) + delta: the start and the
\* microseconds after it
DatePlus(ts, delta) == [start |-> ts, microseconds |-> delta]

\* mutant: the ratio is taken per hour
BusTickHours == FDiv(FFromBig(TickSizeNs), FFromBig(BigMul(BigFromInt(60 * 60), BigFromInt(1000000000))))

\* bus_factor.py: tick_days = tick_size / nanoseconds_per_day
BusTickDays == FDiv(FFromBig(TickSizeNs), FFromBig(nanoseconds_per_day))

\* mutant: header_start_date is not looked at
BusUseDatesIgnoresStart == tick_size > 0

\* bus_factor.py: if tick_size > 0 and header_start_date > 0
BusUseDates == tick_size > 0 /\ header_start_date > 0

\* bus_factor.py: dates and use_dates
BusDates ==
    IF BusUseDates
    THEN [dates |-> [k \in DOMAIN ticks |->
                        DatePlus(header_start_date,
                                 TimedeltaOfDays(FMul(FFromInt(ticks[k]), BusTickDays)))],
          use_dates |-> TRUE]
    ELSE [dates |-> ticks, use_dates |-> FALSE]

\* ownership_concentration.py: tick_days = tick_size / nanoseconds_per_day
OwnershipTickDays == FDiv(FFromBig(TickSizeNs), FFromBig(nanoseconds_per_day))

\* ownership_concentration.py: if tick_size > 0 and header_start_date > 0
OwnershipUseDates == tick_size > 0 /\ header_start_date > 0

\* ownership_concentration.py: dates and use_dates
OwnershipDates ==
    IF OwnershipUseDates
    THEN [dates |-> [k \in DOMAIN ticks |->
                        DatePlus(header_start_date,
                                 TimedeltaOfDays(FMul(FFromInt(ticks[k]), OwnershipTickDays)))],
          use_dates |-> TRUE]
    ELSE [dates |-> ticks, use_dates |-> FALSE]

\* the ticks of the inputs are the multiples of TickStride up to MaxTick of them
MaxTick == 4

TickStride == 73

\* tick sizes in seconds: none, negative, a second, an hour, 100000 s, a day, a week
TickSizes == {-3600, 0, 1, 3600, 100000, 86400, 604800}

StartDates == {-1, 0, 1700000000}

TickInit ==
    /\ TickOthersIdle
    /\ snapshots \in SUBSET {i * TickStride : i \in 0..MaxTick}
    /\ tick_size \in TickSizes
    /\ header_start_date \in StartDates
    /\ bus_chart = <<>>
    /\ ownership_chart = <<>>
    /\ tpc = "start"

\* if not snapshots: print("No ... data available."); return
TickNoData ==
    /\ tpc = "start"
    /\ snapshots = {}
    /\ tpc' = "returned"
    /\ UNCHANGED <<tickOthers, snapshots, tick_size, header_start_date,
                   bus_chart, ownership_chart>>

\* show_bus_factor: the x axis of the time series
ShowBusFactor ==
    /\ tpc = "start"
    /\ snapshots # {}
    /\ bus_chart' = BusDates
    /\ tpc' = "bus"
    /\ UNCHANGED <<tickOthers, snapshots, tick_size, header_start_date, ownership_chart>>

\* show_ownership_concentration on the same snapshots: the x axis of the time series
ShowOwnershipConcentration ==
    /\ tpc = "bus"
    /\ ownership_chart' = OwnershipDates
    /\ tpc' = "done"
    /\ UNCHANGED <<tickOthers, snapshots, tick_size, header_start_date, bus_chart>>

TickNext ==
    \/ TickNoData
    \/ ShowBusFactor
    \/ ShowOwnershipConcentration

TickSpec == TickInit /\ [][TickNext]_vars

TickTypeOK ==
    /\ tpc \in {"start", "returned", "bus", "done"}
    /\ (tpc \in {"bus", "done"}) = (bus_chart # <<>>)
    /\ (tpc = "done") = (ownership_chart # <<>>)

\* the microseconds of t ticks of tick_size seconds
ExactMicroseconds(t) == BigMul(BigFromInt(t * tick_size), BigFromInt(1000000))

\* every tick of the chart is header_start_date plus tick * tick_size exactly
DatesAreExact(chart) ==
    /\ Len(chart.dates) = Len(ticks)
    /\ \A k \in DOMAIN ticks :
          chart.dates[k] = DatePlus(header_start_date, ExactMicroseconds(ticks[k]))

\* C22: with tick_size > 0 and header_start_date > 0 every tick t is mapped
\* to the start date plus t * (tick_size / nanoseconds_per_day) days, and
\* the bus-factor and the ownership-concentration charts get the same dates
TickDatesAgree ==
    (tick_size > 0 /\ header_start_date > 0) =>
        /\ (bus_chart # <<>>) => DatesAreExact(bus_chart)
        /\ (ownership_chart # <<>>) =>
              (DatesAreExact(ownership_chart) /\ ownership_chart.dates = bus_chart.dates)

\* both charts drawn for several ticks of an hour, the last one days after the start
TickDatesAgreeWitness ==
    /\ tpc = "done"
    /\ tick_size = 3600
    /\ header_start_date > 0
    /\ Len(ticks) >= 3
    /\ bus_chart.use_dates /\ ownership_chart.use_dates
    /\ BigCmp(Last(bus_chart.dates).microseconds, MicrosecondsPerDay) > 0

\* the chart shows the raw ticks
RawTicks(chart) == ~chart.use_dates /\ chart.dates = ticks

\* C23: with tick_size <= 0 or header_start_date <= 0 the x axis is the
\* sorted raw tick indices and use_dates is false, in both charts, and no
\* date is computed; otherwise use_dates is true
NoCalendarMapping ==
    /\ (bus_chart # <<>>) =>
          IF tick_size <= 0 \/ header_start_date <= 0
          THEN RawTicks(bus_chart) ELSE bus_chart.use_dates
    /\ (ownership_chart # <<>>) =>
          IF tick_size <= 0 \/ header_start_date <= 0
          THEN RawTicks(ownership_chart) ELSE ownership_chart.use_dates
    /\ \A k \in DOMAIN ticks : k = 1 \/ ticks[k - 1] < ticks[k]

\* both charts drawn on raw ticks for a positive tick_size without a start date
NoCalendarMappingWitness ==
    /\ tpc = "done"
    /\ tick_size > 0
    /\ header_start_date <= 0
    /\ Len(ticks) >= 2
    /\ RawTicks(bus_chart) /\ RawTicks(ownership_chart)


(***************************************************************************)
(* The bus factor calculator (spec section 4.2): its code is not among the *)
(* Python modes, which only read the value from the snapshots              *)
(***************************************************************************)
RECURSIVE Descending(_)
\* the weights sorted descending
Descending(w) ==
    IF w = <<>> THEN <<>>
    ELSE LET k == CHOOSE k \in DOMAIN w : \A j \in DOMAIN w : w[j] <= w[k]
         IN <<w[k]>> \o Descending([j \in 1..(Len(w) - 1) |-> IF j < k THEN w[j] ELSE w[j + 1]])

RECURSIVE SeqSum(_)
SeqSum(w) == IF w = <<>> THEN 0 ELSE w[1] + SeqSum(Tail(w))

RECURSIVE Consumed(_, _, _, _)
\* the entities consumed once the cumulative weight reaches the target, all of
\* them when it never does
Consumed(sorted, k, cumulative, target) ==
    IF k > Len(sorted) THEN Len(sorted)
    ELSE IF FCmp(FFromInt(cumulative + sorted[k]), target) >= 0 THEN k
    ELSE Consumed(sorted, k + 1, cumulative + sorted[k], target)

\* mutant: the target is what the threshold leaves of the total
bus_factor_of_remainder(w, th) ==
    IF SeqSum(w) = 0 THEN 0
    ELSE LET rest == FSub(FOne, th)
         IN Consumed(Descending(w), 1, 0,
                     FMul([m |-> rest.m, e |-> rest.e], FFromInt(SeqSum(w))))

\* mutant: the weights are accumulated in ascending order
bus_factor_ascending(w, th) ==
    IF SeqSum(w) = 0 THEN 0
    ELSE Consumed(Sorted(w), 1, 0, FMul(th, FFromInt(SeqSum(w))))

\* bus_factor(weights, threshold): 0 for a total of 0, or the count of the
\* largest weights whose sum first reaches threshold * total
bus_factor(w, th) ==
    IF SeqSum(w) = 0 THEN 0
    ELSE Consumed(Descending(w), 1, 0, FMul(th, FFromInt(SeqSum(w))))

\* at most MaxWeights weights
MaxWeights == 4

WeightValues == {0, 10, 30, 50}

\* the thresholds of the inputs, in percent
ThresholdPercents == {10, 50, 80, 90}

Thresholds == {FDivInts(p, 100) : p \in ThresholdPercents}

BusFactorInit ==
    /\ BusFactorOthersIdle
    /\ weights \in UNION {[1..len -> WeightValues] : len \in 0..MaxWeights}
    /\ threshold \in Thresholds
    /\ bf_result = -1
    /\ fpc = "start"

\* one call of bus_factor
BusFactorCall ==
    /\ fpc = "start"
    /\ bf_result' = bus_factor(weights, threshold)
    /\ fpc' = "done"
    /\ UNCHANGED <<busFactorOthers, weights, threshold>>

BusFactorNext == BusFactorCall

BusFactorSpec == BusFactorInit /\ [][BusFactorNext]_vars

BusFactorTypeOK ==
    /\ fpc \in {"start", "done"}
    /\ (fpc = "done") = (bf_result # -1)
    /\ bf_result \in -1..Len(weights)

\* the largest sum of k of the weights
TopSum(k) ==
    LET sums == {SeqSum([j \in 1..k |-> weights[SortedSeq(S)[j]]]) :
                    S \in {T \in SUBSET DOMAIN weights : Cardinality(T) = k}}
    IN CHOOSE x \in sums : \A y \in sums : y <= x

\* threshold * total
Target == FMul(threshold, FFromInt(SeqSum(weights)))

\* the value returned is the least count of largest weights that reaches
\* threshold * total, 0 for a total of 0, and at most the input length
LeastCountReaching ==
    /\ bf_result \in 0..Len(weights)
    /\ (SeqSum(weights) = 0) => bf_result = 0
    /\ (SeqSum(weights) > 0) =>
          /\ bf_result >= 1
          /\ FCmp(FFromInt(TopSum(bf_result)), Target) >= 0
          /\ FCmp(FFromInt(TopSum(bf_result - 1)), Target) < 0

\* the scenario: weights [50, 30, 10, 10] with threshold 0.8
Scenario == weights = <<50, 30, 10, 10>> /\ threshold = FDivInts(80, 100)

BusFactorMonotone ==
    (fpc = "done") =>
        \A th \in Thresholds :
            (FCmp(threshold, th) <= 0) => bf_result <= bus_factor(weights, th)

\* weights whose bus factor grows from 1 at this threshold to 3 at a higher one
BusFactorMonotoneWitness ==
    /\ fpc = "done"
    /\ bf_result = 1
    /\ \E th \in Thresholds : FCmp(threshold, th) < 0 /\ bus_factor(weights, th) = 3


(***************************************************************************)
(* Termination of _resample_language_data                                  *)
(***************************************************************************)
\* the call has returned or raised
Terminated == pc \in {"done", "written", "raised"}

\* what is left of the range after the last boundary, in half days
Remaining == Max(0, finish - Last(dgs))

\* more than the steps of one call: its iterations, the exit and the check
CallWeight == 2 * (MaxSpanDays + 1) * DayParts + 5

\* a measure of what the call has left to do: the retries left, then the
\* steps left in the current call
Variant ==
    CallWeight * (3 - Len(chain))
    + (CASE pc = "loop"  -> 3 + 2 * Remaining + (IF periods = 0 THEN 1 ELSE 0)
         [] pc = "check" -> 2
         [] pc = "done"  -> 1
         [] OTHER        -> 0)

\* a call that has not returned or raised can take a step
NeverStuck ==
    /\ pc \in {"loop", "check", "done", "written", "raised"}
    /\ (pc = "loop" /\ ~LoopCondition) => ENABLED LoopExit
    /\ (pc = "check") =>
          ENABLED (RetryByMonth \/ RetryByWeek \/ RaiseTooLoose \/ Aggregate)

\* every step brings the call nearer to its end, and no call is stuck before it
Terminates == [][Variant' < Variant]_vars /\ [](Variant >= 0 /\ NeverStuck)

\* every iteration of the loop moves the last boundary forward
LastBoundaryIncreases ==
    [][(pc = "loop" /\ pc' = "loop") => Last(dgs') > Last(dgs)]_vars

\* every iteration after the first moves the last boundary forward, and the
\* first does not move it back
LastBoundaryIncreasesAfterFirst ==
    [][(pc = "loop" /\ pc' = "loop") =>
          /\ Last(dgs') >= Last(dgs)
          /\ (periods > 0) => Last(dgs') > Last(dgs)]_vars

\* at most two retries are nested: year -> month -> week
AtMostTwoRetries == [](Len(chain) <= 3)

\* C26 as stated: _resample_language_data terminates for every start, end and
\* granularity: the last boundary strictly increases with every iteration
\* until one is >= end, and at most two retries are nested before the call
\* returns or raises
TerminatesByStrictIncrease ==
    Terminates /\ LastBoundaryIncreases /\ AtMostTwoRetries

\* C26 as amended: the same, but the first iteration may leave the last
\* boundary where it is (a start that is itself a boundary), and every later
\* iteration strictly increases it
ResamplerTerminates ==
    Terminates /\ LastBoundaryIncreasesAfterFirst /\ AtMostTwoRetries

\* a year request answered by week after two retries and several iterations
ResamplerTerminatesWitness ==
    /\ pc = "done"
    /\ chain = <<"year", "month", "W">>
    /\ periods >= 2
    /\ bpc = "off"


(***************************************************************************)
(* temporal_activity.py: _filter_activities_by_date_range                  *)
(***************************************************************************)
RECURSIVE BigToInt(_)
\* int(a) for a small integer given by its limbs
BigToInt(a) == IF a = <<>> THEN 0 ELSE a[1] + LimbBase * BigToInt(Tail(a))

\* tick_days = tick_size / NANOSECONDS_PER_DAY if tick_size > 0 else 1
ActivityTickDays(size) ==
    IF size > 0
    THEN FDiv(FFromBig(BigMul(BigFromInt(size), BigFromInt(1000000000))),
              FFromBig(nanoseconds_per_day))
    ELSE FOne

\* int(d / tick_days) for the whole days d of a timedelta: truncated toward zero
TickOfDays(d, tick_days) ==
    LET magnitude == BigToInt(Modf(FDiv(FFromInt(IF d < 0 THEN -d ELSE d), tick_days)).int)
    IN IF d < 0 THEN -magnitude ELSE magnitude

\* tick_data.get(key, 0)
GetOr0(tick_data, key) == IF key \in DOMAIN tick_data THEN tick_data[key] ELSE 0

\* [0] * len
Zeros(len) == [k \in 1..len |-> 0]

\* the entry made for a dev_id not yet in filtered_activities
NewActivity ==
    [weekdays_commits |-> Zeros(7),  weekdays_lines |-> Zeros(7),
     hours_commits    |-> Zeros(24), hours_lines    |-> Zeros(24),
     months_commits   |-> Zeros(12), months_lines   |-> Zeros(12),
     weeks_commits    |-> Zeros(53), weeks_lines    |-> Zeros(53)]

\* array[index] += amount, for a list index from 0
AddAt(array, index, amount) == [array EXCEPT ![index + 1] = @ + amount]

\* the accumulation of one tick_data into the activity of its developer
Accumulate(activity, tick_data) ==
    LET commits == GetOr0(tick_data, "commits")
        lines   == GetOr0(tick_data, "lines")
        weekday == GetOr0(tick_data, "weekday")
        hour    == GetOr0(tick_data, "hour")
        month   == GetOr0(tick_data, "month")
        week    == GetOr0(tick_data, "week")
    IN [weekdays_commits |-> AddAt(activity.weekdays_commits, weekday, commits),
        weekdays_lines   |-> AddAt(activity.weekdays_lines, weekday, lines),
        hours_commits    |-> AddAt(activity.hours_commits, hour, commits),
        hours_lines      |-> AddAt(activity.hours_lines, hour, lines),
        months_commits   |-> AddAt(activity.months_commits, month, commits),
        months_lines     |-> AddAt(activity.months_lines, month, lines),
        weeks_commits    |-> AddAt(activity.weeks_commits, week, commits),
        weeks_lines      |-> AddAt(activity.weeks_lines, week, lines)]

RECURSIVE AccumulateDevs(_, _, _)
\* for dev_id, tick_data in tick_devs.items(): the items from position k on
AccumulateDevs(activities, tick_devs, k) ==
    IF k > Len(tick_devs) THEN activities
    ELSE LET dev_id == tick_devs[k].dev_id
             before == IF dev_id \in DOMAIN activities THEN activities[dev_id]
                       ELSE NewActivity
             after  == Accumulate(before, tick_devs[k].tick_data)
         IN AccumulateDevs([d \in DOMAIN activities \cup {dev_id} |->
                               IF d = dev_id THEN after ELSE activities[d]],
                           tick_devs, k + 1)

\* mutant: the tick at end_tick is left out
InRangeExclusive(tick_id) == ~(tick_id < tick_range.start_tick \/ tick_id >= tick_range.end_tick)

\* not (tick_id < start_tick or tick_id > end_tick)
InRange(tick_id) == ~(tick_id < tick_range.start_tick \/ tick_id > tick_range.end_tick)

\* the tick_data of the inputs: every key, no key at all, the last slots
TickDataValues ==
    {[commits |-> 1, lines |-> 10, weekday |-> 6, hour |-> 23, month |-> 11, week |-> 52],
     [commits |-> 2, lines |-> 5, weekday |-> 0, hour |-> 12, month |-> 0, week |-> 1],
     [lines |-> 3]}

\* tick_devs.items() of the inputs: up to two developers
TickDevsValues ==
    {<<>>}
    \cup {<<[dev_id |-> 0, tick_data |-> t]>> : t \in TickDataValues}
    \cup {<<[dev_id |-> 1, tick_data |-> [lines |-> 3]],
             [dev_id |-> 0, tick_data |-> [commits |-> 1, lines |-> 10, weekday |-> 6,
                                           hour |-> 23, month |-> 11, week |-> 52]]>>}

\* the tick_id of the item at each position of ticks.items(): not in tick order
TickIdAt == <<2, 0, 5, 1>>

\* at most MaxActivityTicks ticks
MaxActivityTicks == 3

TicksInputs ==
    UNION {{[k \in 1..len |-> [tick_id |-> TickIdAt[k], tick_devs |-> devs[k]]] :
               devs \in [1..len -> TickDevsValues]} : len \in 0..MaxActivityTicks}

\* (filter_start - repo_start).days and (filter_end - repo_start).days
DayRanges == {<<-3, 1>>, <<0, 0>>, <<0, 5>>, <<2, 11>>, <<4, 2>>}

ActivityInit ==
    /\ ActivityOthersIdle
    /\ \E t \in TicksInputs, size \in {0, 43200, 172800}, r \in DayRanges :
          activity_args = [ticks |-> t, tick_size |-> size,
                           start_days |-> r[1], end_days |-> r[2]]
    /\ tick_range = <<>>
    /\ tick_pos = 0
    /\ filtered_activities = <<>>
    /\ apc = "start"

\* start_tick, end_tick; filtered_activities = {}
TickRange ==
    /\ apc = "start"
    /\ \E tick_days \in {ActivityTickDays(activity_args.tick_size)} :
          tick_range' = [start_tick |-> TickOfDays(activity_args.start_days, tick_days),
                         end_tick   |-> TickOfDays(activity_args.end_days, tick_days)]
    /\ apc' = "loop"
    /\ UNCHANGED <<activityOthers, activity_args, tick_pos, filtered_activities>>

\* one iteration of for tick_id, tick_devs in ticks.items()
FilterTick ==
    /\ apc = "loop"
    /\ tick_pos < Len(activity_args.ticks)
    /\ LET item == activity_args.ticks[tick_pos + 1]
       IN filtered_activities' =
             IF InRange(item.tick_id)
             THEN AccumulateDevs(filtered_activities, item.tick_devs, 1)
             ELSE filtered_activities
    /\ tick_pos' = tick_pos + 1
    /\ UNCHANGED <<activityOthers, activity_args, tick_range, apc>>

\* return filtered_activities
ReturnFiltered ==
    /\ apc = "loop"
    /\ tick_pos = Len(activity_args.ticks)
    /\ apc' = "done"
    /\ UNCHANGED <<activityOthers, activity_args, tick_range, tick_pos, filtered_activities>>

ActivityNext ==
    \/ TickRange
    \/ FilterTick
    \/ ReturnFiltered

ActivitySpec == ActivityInit /\ [][ActivityNext]_vars

ActivityTypeOK ==
    /\ apc \in {"start", "loop", "done"}
    /\ tick_pos \in 0..Len(activity_args.ticks)
    /\ (apc = "start") => (tick_pos = 0 /\ tick_range = <<>>)
    /\ (apc = "done") => tick_pos = Len(activity_args.ticks)

\* the (tick, developer) items processed so far whose tick is within
\* [start_tick, end_tick], both ends included
IncludedItems ==
    {<<k, j>> \in (1..tick_pos) \X (1..2) :
        /\ j <= Len(activity_args.ticks[k].tick_devs)
        /\ tick_range.start_tick <= activity_args.ticks[k].tick_id
        /\ activity_args.ticks[k].tick_id <= tick_range.end_tick}

ItemDev(it) == activity_args.ticks[it[1]].tick_devs[it[2]].dev_id

ItemData(it) == activity_args.ticks[it[1]].tick_devs[it[2]].tick_data

RECURSIVE TotalOf(_, _)
\* the total of a key over a set of items
TotalOf(items, key) ==
    IF items = {} THEN 0
    ELSE LET it == CHOOSE it \in items : TRUE
         IN GetOr0(ItemData(it), key) + TotalOf(items \ {it}, key)

\* C27: a tick contributes iff start_tick <= tick_id <= end_tick; after any
\* number of ticks processed every developer of an included tick has an
\* entry whose weekdays, hours, months and weeks commit arrays each sum to
\* the developer's commits over the included ticks (likewise the four line
\* arrays), and a developer with no included tick has no entry
ActivitySumsAgree ==
    (apc \in {"loop", "done"}) =>
        /\ DOMAIN filtered_activities = {ItemDev(it) : it \in IncludedItems}
        /\ \A dev \in DOMAIN filtered_activities :
              LET mine    == {it \in IncludedItems : ItemDev(it) = dev}
                  commits == TotalOf(mine, "commits")
                  lines   == TotalOf(mine, "lines")
                  a       == filtered_activities[dev]
              IN /\ SeqSum(a.weekdays_commits) = commits
                 /\ SeqSum(a.hours_commits) = commits
                 /\ SeqSum(a.months_commits) = commits
                 /\ SeqSum(a.weeks_commits) = commits
                 /\ SeqSum(a.weekdays_lines) = lines
                 /\ SeqSum(a.hours_lines) = lines
                 /\ SeqSum(a.months_lines) = lines
                 /\ SeqSum(a.weeks_lines) = lines

\* all ticks processed: the tick at end_tick counted, one tick skipped, a
\* developer with commits and a developer left without an entry
ActivitySumsAgreeWitness ==
    /\ apc = "done"
    /\ tick_pos = 3
    /\ \E k \in 1..tick_pos :
          /\ activity_args.ticks[k].tick_id = tick_range.end_tick
          /\ activity_args.ticks[k].tick_devs # <<>>
    /\ \E k \in 1..tick_pos :
          /\ activity_args.ticks[k].tick_id > tick_range.end_tick
          /\ Len(activity_args.ticks[k].tick_devs) = 2
    /\ DOMAIN filtered_activities = {0}
    /\ SeqSum(filtered_activities[0].weeks_commits) >= 2


(***************************************************************************)
(* refactoring_proxy.py: print_refactoring_summary,                        *)
(* plot_refactoring_timeline                                               *)
(***************************************************************************)
\* result.get("ticks", [])
ResultTicks == IF "ticks" \in DOMAIN result THEN result.ticks ELSE <<>>

\* 0.3
DefaultThreshold == FDivInts(3, 10)

\* result.get("threshold", 0.3)
ResultThreshold == IF "threshold" \in DOMAIN result THEN result.threshold ELSE DefaultThreshold

\* t.get("refactoring_rate", 0)
RateOf(tick) == IF "refactoring_rate" \in DOMAIN tick THEN tick.refactoring_rate ELSE FZero

\* mutant: a rate equal to the threshold is a feature tick
IsAboveThreshold(tick) == FCmp(RateOf(tick), ResultThreshold) > 0

\* tick.get("refactoring_rate", 0) >= threshold
IsRefactoring(tick) == FCmp(RateOf(tick), ResultThreshold) >= 0

\* the offset of local time from UTC, in seconds
UtcOffset == 3600

\* datetime.fromtimestamp(t.get("timestamp", 0)): the naive local time, as its
\* seconds
FromTimestamp(tick) == (IF "timestamp" \in DOMAIN tick THEN tick.timestamp ELSE 0) + UtcOffset

\* sum(1 for t in ticks if t.get("refactoring_rate", 0) >= threshold)
RefactoringCount(s) == Cardinality({k \in DOMAIN s : IsRefactoring(s[k])})

\* mutant: the other streak is not reset
StreakStepWithoutReset(s, tick) ==
    IF IsRefactoring(tick)
    THEN [s EXCEPT !.current_refactoring_streak = @ + 1,
                   !.max_refactoring_streak = Max(@, s.current_refactoring_streak + 1),
                   !.pos = @ + 1]
    ELSE [s EXCEPT !.current_feature_streak = @ + 1,
                   !.max_feature_streak = Max(@, s.current_feature_streak + 1),
                   !.pos = @ + 1]

\* the body of for tick in ticks
StreakStep(s, tick) ==
    IF IsRefactoring(tick)
    THEN [s EXCEPT !.current_refactoring_streak = @ + 1,
                   !.current_feature_streak = 0,
                   !.max_refactoring_streak = Max(@, s.current_refactoring_streak + 1),
                   !.pos = @ + 1]
    ELSE [s EXCEPT !.current_feature_streak = @ + 1,
                   !.current_refactoring_streak = 0,
                   !.max_feature_streak = Max(@, s.current_feature_streak + 1),
                   !.pos = @ + 1]

\* mutant: a region ends at the last tick of its run
RegionStepEndsInsideRun(t, tick) ==
    IF IsRefactoring(tick) /\ t.current_start = <<>>
    THEN [t EXCEPT !.current_start = <<FromTimestamp(tick)>>, !.pos = @ + 1]
    ELSE IF ~IsRefactoring(tick) /\ t.current_start # <<>>
    THEN [t EXCEPT !.refactoring_regions =
                       Append(@, <<t.current_start[1], FromTimestamp(t.ticks[t.pos])>>),
                   !.current_start = <<>>,
                   !.pos = @ + 1]
    ELSE [t EXCEPT !.pos = @ + 1]

\* the body of for i, tick in enumerate(ticks); current_start is <<>> for None
RegionStep(t, tick) ==
    IF IsRefactoring(tick) /\ t.current_start = <<>>
    THEN [t EXCEPT !.current_start = <<FromTimestamp(tick)>>, !.pos = @ + 1]
    ELSE IF ~IsRefactoring(tick) /\ t.current_start # <<>>
    THEN [t EXCEPT !.refactoring_regions =
                       Append(@, <<t.current_start[1], FromTimestamp(tick)>>),
                   !.current_start = <<>>,
                   !.pos = @ + 1]
    ELSE [t EXCEPT !.pos = @ + 1]

\* the ticks with filter_start <= tick_date <= filter_end
FilteredTicks(s) ==
    SelectSeq(s, LAMBDA tick : /\ date_filter[1] <= FromTimestamp(tick)
                               /\ FromTimestamp(tick) <= date_filter[2])

\* the timestamp of the first tick, and the seconds between two ticks
FirstTimestamp == 1700000000
RefTickSeconds == 86400

\* at most MaxRefTicks ticks
MaxRefTicks == 5

\* t.refactoring_rate of the inputs: no key, at the default threshold, above it
RateValues == {<<>>, <<DefaultThreshold>>, <<FHalf>>}

\* the tick at position k with the rate r
RefTick(k, r) ==
    IF r = <<>> THEN [timestamp |-> FirstTimestamp + (k - 1) * RefTickSeconds]
    ELSE [timestamp |-> FirstTimestamp + (k - 1) * RefTickSeconds, refactoring_rate |-> r[1]]

\* the tick lists: timestamps ascending
RefTickLists ==
    UNION {{[k \in 1..len |-> RefTick(k, rates[k])] : rates \in [1..len -> RateValues]} :
              len \in 0..MaxRefTicks}

\* the date ranges asked for: none, one inside the series, one after it
DateFilters ==
    <<<<>>,
      <<FirstTimestamp + RefTickSeconds + UtcOffset, FirstTimestamp + 2 * RefTickSeconds + UtcOffset>>,
      <<FirstTimestamp + 20 * RefTickSeconds, FirstTimestamp + 21 * RefTickSeconds>>>>

RefactoringInit ==
    /\ EarlyIdle /\ TickIdle /\ BusFactorIdle /\ GaugeIdle /\ ActivityIdle
    /\ \E s \in RefTickLists, sd \in {0, FirstTimestamp} :
          result \in {[ticks |-> s, start_date |-> sd],
                      [ticks |-> s, start_date |-> sd, threshold |-> FHalf]}
    /\ \E f \in DOMAIN DateFilters : date_filter = DateFilters[f]
    /\ result.start_date = 0 => date_filter = DateFilters[2]
    /\ summary = <<>>
    /\ timeline = <<>>
    /\ rpc = "start"

\* print_refactoring_summary up to its loop
SummaryStart ==
    /\ rpc = "start"
    /\ IF ResultTicks = <<>>
       THEN /\ rpc' = "summarized"
            /\ UNCHANGED summary
       ELSE /\ summary' = [refactoring_ticks |-> RefactoringCount(ResultTicks),
                           feature_ticks |-> Len(ResultTicks) - RefactoringCount(ResultTicks),
                           max_refactoring_streak |-> 0,
                           max_feature_streak |-> 0,
                           current_refactoring_streak |-> 0,
                           current_feature_streak |-> 0,
                           pos |-> 0]
            /\ rpc' = "summary"
    /\ UNCHANGED <<refactoringOthers, result, date_filter, timeline>>

\* one iteration of for tick in ticks
SummaryTick ==
    /\ rpc = "summary"
    /\ summary.pos < Len(ResultTicks)
    /\ summary' = StreakStep(summary, ResultTicks[summary.pos + 1])
    /\ UNCHANGED <<refactoringOthers, result, date_filter, timeline, rpc>>

\* the summary is printed
SummaryPrint ==
    /\ rpc = "summary"
    /\ summary.pos = Len(ResultTicks)
    /\ rpc' = "summarized"
    /\ UNCHANGED <<refactoringOthers, result, date_filter, summary, timeline>>

\* plot_refactoring_timeline up to its loop
TimelineStart ==
    /\ rpc = "summarized"
    /\ LET filtering == result.start_date > 0 /\ date_filter # <<>>
           kept      == IF filtering THEN FilteredTicks(ResultTicks) ELSE ResultTicks
       IN IF kept = <<>>
          THEN /\ rpc' = "done"
               /\ UNCHANGED timeline
          ELSE /\ timeline' = [ticks |-> kept, pos |-> 0, current_start |-> <<>>,
                               refactoring_regions |-> <<>>]
               /\ rpc' = "timeline"
    /\ UNCHANGED <<refactoringOthers, result, date_filter, summary>>

\* one iteration of for i, tick in enumerate(ticks)
TimelineTick ==
    /\ rpc = "timeline"
    /\ timeline.pos < Len(timeline.ticks)
    /\ timeline' = RegionStep(timeline, timeline.ticks[timeline.pos + 1])
    /\ UNCHANGED <<refactoringOthers, result, date_filter, summary, rpc>>

\* the last region is closed and the regions are shaded
TimelineClose ==
    /\ rpc = "timeline"
    /\ timeline.pos = Len(timeline.ticks)
    /\ timeline' =
          IF timeline.current_start # <<>>
          THEN [timeline EXCEPT !.refactoring_regions =
                   Append(@, <<timeline.current_start[1], FromTimestamp(Last(timeline.ticks))>>)]
          ELSE timeline
    /\ rpc' = "done"
    /\ UNCHANGED <<refactoringOthers, result, date_filter, summary>>

RefactoringNext ==
    \/ SummaryStart
    \/ SummaryTick
    \/ SummaryPrint
    \/ TimelineStart
    \/ TimelineTick
    \/ TimelineClose

RefactoringSpec == RefactoringInit /\ [][RefactoringNext]_vars

RefactoringTypeOK ==
    /\ rpc \in {"start", "summary", "summarized", "timeline", "done"}
    /\ (summary = <<>>) = (rpc = "start" \/ ResultTicks = <<>>)
    /\ (timeline # <<>>) => (rpc \in {"timeline", "done"})
    /\ (rpc = "timeline") => (timeline # <<>>)

\* the length of the longest run of consecutive ticks of s[1..upto] that are
\* (want = TRUE) at or above the threshold, or (want = FALSE) below it
LongestRun(s, upto, want) ==
    LET wanted == [k \in 1..upto |->
                      IF want THEN FCmp(RateOf(s[k]), ResultThreshold) >= 0
                      ELSE FCmp(RateOf(s[k]), ResultThreshold) < 0]
        lengths == {j - i + 1 : <<i, j>> \in
                       {p \in (1..upto) \X (1..upto) :
                           p[1] <= p[2] /\ \A k \in p[1]..p[2] : wanted[k]}}
    IN IF lengths = {} THEN 0 ELSE CHOOSE m \in lengths : \A l \in lengths : l <= m

\* C28: after any number of ticks scanned max_refactoring_streak is the length
\* of the longest run of consecutive ticks at or above the threshold and
\* max_feature_streak that of the longest run below it, at most one of the
\* two current streaks is non-zero, and refactoring_ticks + feature_ticks is
\* the number of ticks
StreaksAreLongestRuns ==
    (summary # <<>>) =>
        /\ summary.max_refactoring_streak = LongestRun(ResultTicks, summary.pos, TRUE)
        /\ summary.max_feature_streak = LongestRun(ResultTicks, summary.pos, FALSE)
        /\ summary.current_refactoring_streak = 0 \/ summary.current_feature_streak = 0
        /\ summary.refactoring_ticks + summary.feature_ticks = Len(ResultTicks)

\* a scan finished with a refactoring run of two ticks before a longer
\* feature run
StreaksAreLongestRunsWitness ==
    /\ rpc = "summarized"
    /\ summary # <<>>
    /\ summary.pos = 5
    /\ summary.max_refactoring_streak = 2
    /\ summary.max_feature_streak = 3
    /\ summary.current_feature_streak = 3
    /\ summary.refactoring_ticks = 2

\* the first ticks of the maximal runs of ticks at or above the threshold
RunStarts(s) ==
    LET above == [k \in DOMAIN s |-> IsRefactoring(s[k])]
    IN {i \in DOMAIN s : above[i] /\ (i = 1 \/ ~above[i - 1])}

\* the first tick below the threshold after the tick i, the last tick if none
RunStop(s, i) ==
    LET below == {j \in DOMAIN s : j > i /\ ~IsRefactoring(s[j])}
    IN IF below = {} THEN Len(s) ELSE CHOOSE j \in below : \A l \in below : j <= l

\* one region per maximal run, in the order of the runs
ExpectedRegions(s) ==
    LET firsts == SortedSeq(RunStarts(s))
    IN [k \in DOMAIN firsts |->
           <<FromTimestamp(s[firsts[k]]), FromTimestamp(s[RunStop(s, firsts[k])])>>]

\* C29: the shaded regions are one per maximal run of ticks at or above the
\* threshold, from the timestamp of the run's first tick to that of the first
\* following tick below the threshold (the last tick's when the run reaches
\* the end), in chronological order and without overlap
RegionsAreMaximalRuns ==
    (rpc = "done" /\ timeline # <<>>) =>
        /\ timeline.refactoring_regions = ExpectedRegions(timeline.ticks)
        /\ \A k \in DOMAIN timeline.refactoring_regions :
              /\ timeline.refactoring_regions[k][1] <= timeline.refactoring_regions[k][2]
              /\ k > 1 => timeline.refactoring_regions[k - 1][2]
                              < timeline.refactoring_regions[k][1]

\* two regions shaded: one closed by a tick below the threshold, one that
\* reaches the end of the series
RegionsAreMaximalRunsWitness ==
    /\ rpc = "done"
    /\ timeline # <<>>
    /\ Len(timeline.ticks) = 5
    /\ Len(timeline.refactoring_regions) = 2
    /\ timeline.refactoring_regions[1][1] < timeline.refactoring_regions[1][2]
    /\ timeline.refactoring_regions[2][2] = FromTimestamp(Last(timeline.ticks))
    /\ timeline.refactoring_regions[2][1] < timeline.refactoring_regions[2][2]


(***************************************************************************)
(* bus_factor.py: _plot_gauge, the pie of the top owners                   *)
(***************************************************************************)
\* len(people)
PeopleCount == 6

\* the slices shown before the rest is grouped
max_slices == 8

RECURSIVE SortedAuthors(_)
\* sorted(items, key=lambda x: x[1], reverse=True): most lines first, equal
\* lines in the order of the items
SortedAuthors(items) ==
    IF items = <<>> THEN <<>>
    ELSE LET first == CHOOSE i \in DOMAIN items :
                          /\ \A j \in DOMAIN items : items[j].lines <= items[i].lines
                          /\ \A j \in 1..(i - 1) : items[j].lines < items[i].lines
         IN <<items[first]>>
            \o SortedAuthors([k \in 1..(Len(items) - 1) |->
                                 IF k < first THEN items[k] ELSE items[k + 1]])

\* people[author_id] if 0 <= author_id < len(people) else f"Author {author_id}"
AuthorLabel(author_id) ==
    IF 0 <= author_id /\ author_id < PeopleCount
    THEN [kind |-> "person", id |-> author_id]
    ELSE [kind |-> "author", id |-> author_id]

\* the label of the slice of the rest
OthersLabel == [kind |-> "others", id |-> -1]

\* mutant: the rest has a slice even when it owns nothing
PieWithEmptyOthers(sorted_authors) ==
    LET shown  == Min(max_slices, Len(sorted_authors))
        others == SeqSum([k \in 1..(Len(sorted_authors) - shown) |->
                             sorted_authors[shown + k].lines])
        top_labels == [k \in 1..shown |-> AuthorLabel(sorted_authors[k].author_id)]
        top_values == [k \in 1..shown |-> sorted_authors[k].lines]
    IN IF others >= 0
       THEN [pie_labels |-> Append(top_labels, OthersLabel),
             pie_values |-> Append(top_values, others)]
       ELSE [pie_labels |-> top_labels, pie_values |-> top_values]

\* pie_labels and pie_values of the sorted authors
Pie(sorted_authors) ==
    LET shown  == Min(max_slices, Len(sorted_authors))
        others == SeqSum([k \in 1..(Len(sorted_authors) - shown) |->
                             sorted_authors[shown + k].lines])
        top_labels == [k \in 1..shown |-> AuthorLabel(sorted_authors[k].author_id)]
        top_values == [k \in 1..shown |-> sorted_authors[k].lines]
    IN IF others > 0
       THEN [pie_labels |-> Append(top_labels, OthersLabel),
             pie_values |-> Append(top_values, others)]
       ELSE [pie_labels |-> top_labels, pie_values |-> top_values]

\* at most MaxAuthors authors
MaxAuthors == 10

\* the author of the item at position k: the authors of people first, then
\* authors people does not name
AuthorIdAt(k) == IF k % 3 = 0 THEN 1000 + k ELSE k - 1

\* the lines of the item at position k, by pattern
LinesAt(pattern, k) ==
    CASE pattern = 1 -> k
      [] pattern = 2 -> MaxAuthors + 1 - k
      [] pattern = 3 -> 0
      [] pattern = 4 -> 5
      [] pattern = 5 -> IF k = max_slices + 1 THEN 3 ELSE 0
      [] pattern = 6 -> IF k % 2 = 1 THEN 5 ELSE k
      [] pattern = 7 -> IF k <= max_slices THEN 2 ELSE 0
      [] pattern = 8 -> IF k <= max_slices THEN 1 ELSE 4

\* the author_lines of the inputs: a pattern, cut to a length, one author
\* (none for heavy = 0) owning more
AuthorLinesInputs ==
    {[k \in 1..len |-> [author_id |-> AuthorIdAt(k),
                        lines |-> LinesAt(pattern, k) + (IF k = heavy THEN 7 ELSE 0)]] :
        pattern \in 1..8, len \in 0..MaxAuthors, heavy \in 0..MaxAuthors}

GaugeInit ==
    /\ GaugeOthersIdle
    /\ author_lines \in AuthorLinesInputs
    /\ \E unowned \in {0, 1} :
          total_lines = SeqSum([k \in DOMAIN author_lines |-> author_lines[k].lines]) + unowned
    /\ pie = <<>>
    /\ gpc = "start"

\* if author_lines and total_lines > 0: the pie is drawn
PlotPie ==
    /\ gpc = "start"
    /\ author_lines # <<>> /\ total_lines > 0
    /\ pie' = Pie(SortedAuthors(author_lines))
    /\ gpc' = "pie"
    /\ UNCHANGED <<gaugeOthers, author_lines, total_lines>>

\* else: "No ownership data"
NoOwnershipData ==
    /\ gpc = "start"
    /\ ~(author_lines # <<>> /\ total_lines > 0)
    /\ gpc' = "no_data"
    /\ UNCHANGED <<gaugeOthers, author_lines, total_lines, pie>>

GaugeNext ==
    \/ PlotPie
    \/ NoOwnershipData

GaugeSpec == GaugeInit /\ [][GaugeNext]_vars

GaugeTypeOK ==
    /\ gpc \in {"start", "pie", "no_data"}
    /\ (gpc = "pie") = (pie # <<>>)
    /\ (gpc = "pie") => Len(pie.pie_labels) = Len(pie.pie_values)

\* the lines of the author with the id
LinesOf(id) == (CHOOSE item \in Range(author_lines) : item.author_id = id).lines

\* the sum of the lines of a set of authors
RECURSIVE LinesOfAll(_)
LinesOfAll(ids) ==
    IF ids = {} THEN 0
    ELSE LET id == CHOOSE id \in ids : TRUE IN LinesOf(id) + LinesOfAll(ids \ {id})

\* C30: the pie drawn for a non-empty author_lines with positive total has
\* one slice for each of the (at most) 8 authors with the most lines, most
\* lines first, then an "Others" slice exactly when the lines of the
\* remaining authors sum to more than 0; the values sum to the sum of all
\* author lines and there are at most 9 slices
PieIsTopEightAndOthers ==
    /\ (gpc \in {"pie", "no_data"} /\ author_lines # <<>> /\ total_lines > 0) => gpc = "pie"
    /\ (gpc = "pie") =>
          LET all    == {item.author_id : item \in Range(author_lines)}
              shown  == Min(8, Cardinality(all))
              slices == {k \in DOMAIN pie.pie_labels : pie.pie_labels[k] # OthersLabel}
              top    == {pie.pie_labels[k].id : k \in slices}
              rest   == LinesOfAll(all \ top)
          IN /\ slices = 1..shown
             /\ Cardinality(top) = shown /\ top \subseteq all
             /\ \A k \in slices : pie.pie_values[k] = LinesOf(pie.pie_labels[k].id)
             /\ \A k \in slices : k > 1 => pie.pie_values[k - 1] >= pie.pie_values[k]
             /\ \A id \in all \ top : \A k \in slices : LinesOf(id) <= pie.pie_values[k]
             /\ Len(pie.pie_labels) = shown + (IF rest > 0 THEN 1 ELSE 0)
             /\ rest > 0 => pie.pie_values[shown + 1] = rest
             /\ SeqSum(pie.pie_values) = LinesOfAll(all)
             /\ Len(pie.pie_values) <= 9

\* ten authors, the heaviest among the last ones: nine slices, the rest
\* grouped into "Others"
PieIsTopEightAndOthersWitness ==
    /\ gpc = "pie"
    /\ Len(author_lines) = 10
    /\ Len(pie.pie_values) = 9
    /\ pie.pie_labels[9] = OthersLabel
    /\ pie.pie_values[9] = 2
    /\ pie.pie_labels[1] = AuthorLabel(author_lines[9].author_id)

=============================================================================
